---- MODULE Spec2Model ----
(***************************************************************************)
(* A model of the csv package (csv.go, convert.go): the CsvOption          *)
(* registries, the pair-string parsers and the reflective field populator. *)
(* A Go string is a sequence of one-character strings; positions are       *)
(* 0-based as in the source, and s[a:b] is Slice(s, a, b).                 *)
(***************************************************************************)
EXTENDS Integers, Sequences, FiniteSets, TLC

VARIABLES
    option,     \* the CsvOption variables: the package's DefaultOption, the caller's option
    heap,       \* the Go maps allocated by the registries, by reference
    op,         \* the entry point called last ("none" before any call)
    args,       \* the arguments of that call
    result,     \* what the parser entry points returned
    dest,       \* the destination map / slice / object of a ReadCsvFromData* call
    err,        \* "none" before a call, then "nil", an error text or "panic"
    log         \* converter invocations and slog records of the call, in order

vars == <<option, heap, op, args, result, dest, err, log>>

-----------------------------------------------------------------------------
(* Go strings *)

Digits == <<"0", "1", "2", "3", "4", "5", "6", "7", "8", "9">>

IsDigit(c) == \E i \in 1..10 : Digits[i] = c

DigitVal(c) == (CHOOSE i \in 1..10 : Digits[i] = c) - 1

\* s[a:b]
Slice(s, a, b) == SubSeq(s, a + 1, b)

\* strings.HasPrefix(s[i:], sub)
MatchAt(s, sub, i) ==
    /\ i + Len(sub) <= Len(s)
    /\ \A k \in 1..Len(sub) : s[i + k] = sub[k]

\* strings.Index: the 0-based position of the first occurrence, -1 when none
Index(s, sub) ==
    IF \E i \in 0..Len(s) : MatchAt(s, sub, i)
    THEN CHOOSE i \in 0..Len(s) :
             /\ MatchAt(s, sub, i)
             /\ \A j \in 0..(i - 1) : ~MatchAt(s, sub, j)
    ELSE -1

\* strings.Contains
Contains(s, sub) == Index(s, sub) >= 0

RECURSIVE Split(_, _)
\* strings.Split(s, sep): an empty sep explodes s into its characters
Split(s, sep) ==
    IF sep = <<>>
    THEN [i \in 1..Len(s) |-> <<s[i]>>]
    ELSE LET i == Index(s, sep) IN
         IF i < 0 THEN <<s>>
         ELSE <<Slice(s, 0, i)>> \o Split(Slice(s, i + Len(sep), Len(s)), sep)

\* strings.SplitN(s, sep, 2)
SplitN2(s, sep) ==
    IF sep = <<>>
    THEN IF Len(s) = 0 THEN <<>>
         ELSE IF Len(s) = 1 THEN <<s>>
         ELSE <<Slice(s, 0, 1), Slice(s, 1, Len(s))>>
    ELSE LET i == Index(s, sep) IN
         IF i < 0 THEN <<s>>
         ELSE <<Slice(s, 0, i), Slice(s, i + Len(sep), Len(s))>>

\* strings.Replace(s, old, new, 1) for a non-empty old
Replace1(s, old, new) ==
    LET i == Index(s, old) IN
    IF i < 0 THEN s
    ELSE Slice(s, 0, i) \o new \o Slice(s, i + Len(old), Len(s))

RECURSIVE DigitsVal(_)
DigitsVal(s) ==
    IF s = <<>> THEN 0
    ELSE 10 * DigitsVal(SubSeq(s, 1, Len(s) - 1)) + DigitVal(s[Len(s)])

\* strconv.Atoi wrapped: 0 on a parse error
Atoi(s) ==
    LET signed == Len(s) > 0 /\ s[1] \in {"+", "-"}
        body   == IF signed THEN Tail(s) ELSE s
    IN  IF body = <<>> \/ \E i \in 1..Len(body) : ~IsDigit(body[i])
        THEN 0
        ELSE IF signed /\ s[1] = "-" THEN 0 - DigitsVal(body) ELSE DigitsVal(body)

RECURSIVE Itoa(_)
\* strconv.Itoa for n >= 0
Itoa(n) ==
    IF n < 10 THEN <<Digits[n + 1]>>
    ELSE Itoa(n \div 10) \o <<Digits[(n % 10) + 1]>>

-----------------------------------------------------------------------------
(* CsvOption *)

\* The registries are Go maps: a CsvOption holds a reference into heap,
\* 0 for the nil map, and a struct copy of a CsvOption copies the references.
NilMap == 0

DefaultOption ==
    [ ColumnNameRowIndex      |-> 0,
      DataBeginRowIndex       |-> 1,
      ObjectDataBeginRowIndex |-> 0,
      DisableProtobufAliasName |-> FALSE,
      DisableJsonAliasName    |-> FALSE,
      SliceSeparator          |-> <<";">>,
      KvSeparator             |-> <<"_">>,
      PairSeparator           |-> <<"#">>,
      customFieldConvertersByColumnName |-> NilMap,
      customFieldConvertersByType       |-> NilMap,
      ignoreColumns                     |-> NilMap ]

\* The CsvOption variables of a program: the package's DefaultOption and a
\* caller's own value.  A *CsvOption argument is one of them, or "nil".
OptionVars == {"DefaultOption", "option"}

OptionPtrs == {"nil", "option"}

\* if option == nil { option = &DefaultOption }
OrDefault(opts, ptr) == IF ptr = "nil" THEN opts["DefaultOption"] ELSE opts[ptr]

-----------------------------------------------------------------------------
(* convert.go: the pair-string parsers.  A parser returns                  *)
(* [panic, pairs] or [panic, groups]; panic is a Go run-time panic (a      *)
(* slice bound out of range, a nil *CsvOption dereferenced).               *)

StringPair(k, v) == [Key |-> k, Value |-> v]

RECURSIVE convertPairLoop(_, _, _)
convertPairLoop(pairs, pairSlice, kvSeparator) ==
    IF pairSlice = <<>> THEN pairs
    ELSE LET kv == SplitN2(Head(pairSlice), kvSeparator) IN
         convertPairLoop(
             IF Len(kv) # 2 THEN pairs
             ELSE Append(pairs, StringPair(kv[1], kv[2])),
             Tail(pairSlice), kvSeparator)

convertPairString(pairs, cellString, pairSeparator, kvSeparator) ==
    convertPairLoop(pairs, Split(cellString, pairSeparator), kvSeparator)

\* ParsePairString with the two separators passed in each other's place.
ParsePairStringSwapped(cellString, o) ==
    convertPairString(<<>>, cellString, o.KvSeparator, o.PairSeparator)

ParsePairString(cellString, o) ==
    convertPairString(<<>>, cellString, o.PairSeparator, o.KvSeparator)

\* One iteration of ParseNestString's loop over nestFieldNames.
NestStep(st, nestFieldName, kvSeparator) ==
    LET keyword  == nestFieldName \o kvSeparator \o <<"{">>
        s        == st.s
        beginPos == Index(s, keyword)
        endPos   == Index(s, <<"}">>)
    IN  IF st.panic \/ beginPos < 0 \/ endPos <= beginPos THEN st
        ELSE IF beginPos + Len(keyword) > endPos
             THEN [st EXCEPT !.panic = TRUE]
             ELSE [ panic |-> FALSE,
                    pairs |-> Append(st.pairs,
                                  StringPair(nestFieldName,
                                      Slice(s, beginPos + Len(keyword), endPos))),
                    s     |-> IF endPos < Len(s) - 2
                              THEN Slice(s, 0, beginPos) \o Slice(s, endPos + 1, Len(s))
                              ELSE Slice(s, 0, beginPos) ]

RECURSIVE NestLoop(_, _, _)
NestLoop(st, nestFieldNames, kvSeparator) ==
    IF nestFieldNames = <<>> THEN st
    ELSE NestLoop(NestStep(st, Head(nestFieldNames), kvSeparator),
                  Tail(nestFieldNames), kvSeparator)

ParseNestString(cellString, o, nestFieldNames) ==
    LET st == NestLoop([panic |-> FALSE, pairs |-> <<>>, s |-> cellString],
                       nestFieldNames, o.KvSeparator)
    IN  IF st.panic THEN [panic |-> TRUE, pairs |-> <<>>]
        ELSE [ panic |-> FALSE,
               pairs |-> convertPairString(st.pairs, st.s,
                                           o.PairSeparator, o.KvSeparator) ]

RECURSIVE ReplaceLoop(_, _, _)
\* The inner for{} of ParseNestStringSlice for one nested field name.
\* replaceKeys[id] is the pair recorded under placeholder id.
ReplaceLoop(st, nestFieldName, kvSeparator) ==
    LET keyword  == nestFieldName \o kvSeparator \o <<"{">>
        s        == st.s
        beginPos == Index(s, keyword)
        endPos   == Index(s, <<"}">>)
    IN  IF st.panic \/ beginPos < 0 \/ endPos <= beginPos THEN st
        ELSE IF beginPos + Len(keyword) > endPos
             THEN [st EXCEPT !.panic = TRUE]
             ELSE LET nestFieldValue == Slice(s, beginPos + Len(keyword), endPos)
                      idCounter      == st.idCounter + 1
                      old            == keyword \o nestFieldValue \o <<"}">>
                  IN  ReplaceLoop(
                          [ panic       |-> FALSE,
                            idCounter   |-> idCounter,
                            replaceKeys |-> Append(st.replaceKeys,
                                                StringPair(nestFieldName, nestFieldValue)),
                            s           |-> Replace1(s, old,
                                                nestFieldName \o kvSeparator \o Itoa(idCounter)) ],
                          nestFieldName, kvSeparator)

\* ReplaceOnce with the braces kept around the id of the placeholder.
ReplaceOnceBracedId(st, nestFieldName, kvSeparator) ==
    LET keyword  == nestFieldName \o kvSeparator \o <<"{">>
        s        == st.s
        beginPos == Index(s, keyword)
        endPos   == Index(s, <<"}">>)
    IN  IF beginPos < 0 \/ endPos <= beginPos THEN [st EXCEPT !.broke = TRUE]
        ELSE IF beginPos + Len(keyword) > endPos
             THEN [st EXCEPT !.panic = TRUE]
             ELSE [st EXCEPT
                     !.idCounter = @ + 1,
                     !.replaceKeys =
                         Append(@, StringPair(nestFieldName,
                                       Slice(s, beginPos + Len(keyword), endPos))),
                     !.s = Replace1(s,
                               keyword \o Slice(s, beginPos + Len(keyword), endPos)
                                       \o <<"}">>,
                               keyword \o Itoa(st.idCounter + 1) \o <<"}">>)]

\* One iteration of the inner for loop of ParseNestStringSlice on the loop
\* state st: broke is set when the iteration leaves the loop, panic when
\* s[beginPos+len(keyword) : endPos] is out of range.
ReplaceOnce(st, nestFieldName, kvSeparator) ==
    LET keyword  == nestFieldName \o kvSeparator \o <<"{">>
        s        == st.s
        beginPos == Index(s, keyword)
        endPos   == Index(s, <<"}">>)
    IN  IF beginPos < 0 \/ endPos <= beginPos THEN [st EXCEPT !.broke = TRUE]
        ELSE IF beginPos + Len(keyword) > endPos
             THEN [st EXCEPT !.panic = TRUE]
             ELSE [st EXCEPT
                     !.idCounter = @ + 1,
                     !.replaceKeys =
                         Append(@, StringPair(nestFieldName,
                                       Slice(s, beginPos + Len(keyword), endPos))),
                     !.s = Replace1(s,
                               keyword \o Slice(s, beginPos + Len(keyword), endPos)
                                       \o <<"}">>,
                               nestFieldName \o kvSeparator \o Itoa(st.idCounter + 1))]

RECURSIVE ReplaceAll(_, _, _)
ReplaceAll(st, nestFieldNames, kvSeparator) ==
    IF nestFieldNames = <<>> THEN st
    ELSE ReplaceAll(ReplaceLoop(st, Head(nestFieldNames), kvSeparator),
                    Tail(nestFieldNames), kvSeparator)

SeqContains(seq, x) == \E i \in 1..Len(seq) : seq[i] = x

RECURSIVE RestoreLoop(_, _, _, _, _)
\* The pairs of one array element, placeholders resolved through replaceKeys.
RestoreLoop(pairs, pairSlice, kvSeparator, nestFieldNames, replaceKeys) ==
    IF pairSlice = <<>> THEN pairs
    ELSE LET kv == SplitN2(Head(pairSlice), kvSeparator)
             id == Atoi(kv[2])
             next ==
                 IF Len(kv) # 2 THEN pairs
                 ELSE IF SeqContains(nestFieldNames, kv[1])
                      THEN IF id \in 1..Len(replaceKeys)
                           THEN Append(pairs, replaceKeys[id])
                           ELSE pairs
                      ELSE Append(pairs, StringPair(kv[1], kv[2]))
         IN  RestoreLoop(next, Tail(pairSlice), kvSeparator, nestFieldNames, replaceKeys)

\* option is dereferenced without a nil check: a nil option panics.
ParseNestStringSlice(cellString, optionIsNil, o, nestFieldNames) ==
    IF optionIsNil THEN [panic |-> TRUE, groups |-> <<>>]
    ELSE
    LET st == ReplaceAll([panic |-> FALSE, idCounter |-> 0,
                          replaceKeys |-> <<>>, s |-> cellString],
                         nestFieldNames, o.KvSeparator)
        elemSlice == Split(st.s, o.SliceSeparator)
    IN  IF st.panic THEN [panic |-> TRUE, groups |-> <<>>]
        ELSE [ panic  |-> FALSE,
               groups |-> [i \in 1..Len(elemSlice) |->
                              RestoreLoop(<<>>, Split(elemSlice[i], o.PairSeparator),
                                          o.KvSeparator, nestFieldNames, st.replaceKeys)] ]

-----------------------------------------------------------------------------
(* reflect: the types and values of the destination records.  A type is   *)
(* named by its Go spelling.  A value of a struct type is a function from *)
(* field names to values, of a pointer type NilPtr or PtrTo(v), of a      *)
(* slice type NilSlice or MadeSlice(elems).                                *)

CfgIdStr == <<"C", "f", "g", "I", "d">>
NumStr == <<"N", "u", "m">>
ConsumeItemsStr == <<"C", "o", "n", "s", "u", "m", "e", "I", "t", "e", "m", "s">>
RewardsStr == <<"R", "e", "w", "a", "r", "d", "s">>
CountLimitStr == <<"C", "o", "u", "n", "t", "L", "i", "m", "i", "t">>
NameStr == <<"N", "a", "m", "e">>
UniqueStr == <<"U", "n", "i", "q", "u", "e">>
ItemStr == <<"I", "t", "e", "m">>
ItemStructStr == <<"I", "t", "e", "m", "S", "t", "r", "u", "c", "t">>
ItemsStr == <<"I", "t", "e", "m", "s">>
ItemStructsStr == <<"I", "t", "e", "m", "S", "t", "r", "u", "c", "t", "s">>
ColorStr == <<"C", "o", "l", "o", "r">>
ColorFlagsStr == <<"C", "o", "l", "o", "r", "F", "l", "a", "g", "s">>
SliceTestStr == <<"S", "l", "i", "c", "e", "T", "e", "s", "t">>
ColorsStr == <<"C", "o", "l", "o", "r", "s">>
ChildStr == <<"C", "h", "i", "l", "d">>
ItemPtrStr == <<"I", "t", "e", "m", "P", "t", "r">>
ImageQualityStr == <<"I", "m", "a", "g", "e", "Q", "u", "a", "l", "i", "t", "y">>
VolumeStr == <<"V", "o", "l", "u", "m", "e">>
LanguageStr == <<"L", "a", "n", "g", "u", "a", "g", "e">>
unknownColumnTestStr == <<"u", "n", "k", "n", "o", "w", "n", "C", "o", "l", "u", "m", "n", "T", "e", "s", "t">>
KeyStr == <<"K", "e", "y">>
ValueStr == <<"V", "a", "l", "u", "e">>
MapTestStr == <<"M","a","p","T","e","s","t">>
ItemMapStr == <<"I","t","e","m","M","a","p">>
ColorMapStr == <<"C","o","l","o","r","M","a","p">>
ColorPtrStr == <<"C","o","l","o","r","P","t","r">>
commentStr == <<"c", "o", "m", "m", "e", "n", "t">>

\* The record types: Settings and ItemNum as in the tests; Cfg after testCfg
\* and testItemCfg, with a slice of the enum type Color beside the slice of
\* int; Child after TestNestStruct's Child, with struct-typed sub-fields
\* beside its slice; MapCfg with the map fields of testItemCfg and testCfg
\* and a map to the enum type Color; PtrCfg with the pointer fields of
\* testCfg.
Fields(t) ==
    CASE t = "ItemNum"  -> << <<CfgIdStr, "int32">>, <<NumStr, "int32">> >>
      [] t = "Settings" -> << <<ImageQualityStr, "int">>, <<VolumeStr, "int">>,
                              <<LanguageStr, "string">> >>
      [] t = "Child"    -> << <<NameStr, "string">>, <<ItemStr, "ItemNum">>,
                              <<ItemPtrStr, "*ItemNum">>, <<ItemsStr, "[]*ItemNum">>,
                              <<SliceTestStr, "[]int">> >>
      [] t = "PtrCfg"   -> << <<CfgIdStr, "int32">>, <<ItemStr, "*ItemNum">>,
                              <<ColorPtrStr, "*Color">> >>
      [] t = "MapCfg"   -> << <<CfgIdStr, "int32">>,
                              <<MapTestStr, "map[string]int32">>,
                              <<ItemMapStr, "map[int32]*ItemNum">>,
                              <<ColorMapStr, "map[string]Color">> >>
      [] t = "Cfg"      -> << <<CfgIdStr, "int32">>, <<NameStr, "string">>,
                              <<UniqueStr, "bool">>, <<ItemStr, "*ItemNum">>,
                              <<ItemStructStr, "ItemNum">>, <<ItemsStr, "[]*ItemNum">>,
                              <<ItemStructsStr, "[]ItemNum">>, <<ColorStr, "Color">>,
                              <<ColorFlagsStr, "int32">>, <<SliceTestStr, "[]int">>,
                              <<ColorsStr, "[]Color">>, <<ChildStr, "Child">> >>
      [] OTHER -> <<>>

\* reflect.Type.Kind
Kind(t) ==
    CASE t \in {"int"} -> "Int"
      [] t \in {"int32", "Color"} -> "Int32"
      [] t = "string" -> "String"
      [] t = "bool" -> "Bool"
      [] t \in {"ItemNum", "Settings", "Child", "Cfg", "MapCfg", "PtrCfg"} -> "Struct"
      [] t \in {"*ItemNum", "*Cfg", "*Settings", "*Color", "*MapCfg", "*PtrCfg"} -> "Ptr"
      [] t \in {"map[string]int32", "map[int32]*ItemNum", "map[string]Color"} -> "Map"
      [] t \in {"[]int", "[]Color", "[]*ItemNum", "[]ItemNum"} -> "Slice"
      [] OTHER -> "Invalid"

\* reflect.Type.Elem
Elem(t) ==
    CASE t = "*ItemNum" -> "ItemNum"
      [] t = "*Cfg" -> "Cfg"
      [] t = "*Settings" -> "Settings"
      [] t = "*Color" -> "Color"
      [] t = "[]int" -> "int"
      [] t = "[]Color" -> "Color"
      [] t = "[]*ItemNum" -> "*ItemNum"
      [] t = "[]ItemNum" -> "ItemNum"
      [] t = "*MapCfg" -> "MapCfg"
      [] t = "*PtrCfg" -> "PtrCfg"
      [] t = "map[string]int32" -> "int32"
      [] t = "map[int32]*ItemNum" -> "*ItemNum"
      [] t = "map[string]Color" -> "Color"
      [] OTHER -> "invalid"

\* reflect.Type.Key
Key(t) ==
    CASE t = "map[string]int32" -> "string"
      [] t = "map[int32]*ItemNum" -> "int32"
      [] t = "map[string]Color" -> "string"
      [] OTHER -> "invalid"

\* reflect.PointerTo
PointerTo(t) ==
    CASE t = "ItemNum" -> "*ItemNum"
      [] t = "Cfg" -> "*Cfg"
      [] t = "Settings" -> "*Settings"
      [] t = "Color" -> "*Color"
      [] OTHER -> "*" \o t

FieldNames(t) == { Fields(t)[i][1] : i \in 1..Len(Fields(t)) }

\* The type of reflect.Value.FieldByName(name); "invalid" for the zero Value
\* of a name that is no field.
FieldType(t, name) ==
    IF name \in FieldNames(t)
    THEN Fields(t)[CHOOSE i \in 1..Len(Fields(t)) : Fields(t)[i][1] = name][2]
    ELSE "invalid"

NilPtr == [ptr |-> "nil"]
PtrTo(v) == [ptr |-> "new", elem |-> v]
NilSlice == [slice |-> "nil", elems |-> <<>>]
MadeSlice(es) == [slice |-> "made", elems |-> es]
NilMapValue == [map |-> "nil", entries |-> <<>>]
MadeMap(m) == [map |-> "made", entries |-> m]

RECURSIVE Zero(_)
\* The zero value of a type: what reflect.New allocates.
Zero(t) ==
    CASE Kind(t) \in {"Int", "Int32"} -> 0
      [] Kind(t) = "String" -> <<>>
      [] Kind(t) = "Bool" -> FALSE
      [] Kind(t) = "Ptr" -> NilPtr
      [] Kind(t) = "Slice" -> NilSlice
      [] Kind(t) = "Map" -> NilMapValue
      [] Kind(t) = "Struct" -> [n \in FieldNames(t) |-> Zero(FieldType(t, n))]

\* An interface value (any): AnyNil, or a value with its dynamic type.
AnyNil == [type |-> "nil"]
AnyOf(t, v) == [type |-> t, val |-> v]

UpperLetters == <<"A", "B", "C", "D", "E", "F", "G", "H", "I", "J", "K", "L", "M",
                  "N", "O", "P", "Q", "R", "S", "T", "U", "V", "W", "X", "Y", "Z">>
LowerLetters == <<"a", "b", "c", "d", "e", "f", "g", "h", "i", "j", "k", "l", "m",
                  "n", "o", "p", "q", "r", "s", "t", "u", "v", "w", "x", "y", "z">>

\* strings.ToLower
ToLower(s) ==
    [i \in 1..Len(s) |->
        IF \E k \in 1..26 : UpperLetters[k] = s[i]
        THEN LowerLetters[CHOOSE k \in 1..26 : UpperLetters[k] = s[i]]
        ELSE s[i]]

\* strings.ToLower(s) == "true" || s == "1"
ParseBool(s) == ToLower(s) = <<"t", "r", "u", "e">> \/ s = <<"1">>

\* ConvertStringToRealType: the value carries the built-in type of the kind,
\* not the named type asked for; nil for a kind it does not support.
ConvertStringToRealType(t, s) ==
    CASE Kind(t) = "Int" -> AnyOf("int", Atoi(s))
      [] Kind(t) = "Int32" -> AnyOf("int32", Atoi(s))
      [] Kind(t) = "String" -> AnyOf("string", s)
      [] Kind(t) = "Bool" -> AnyOf("bool", ParseBool(s))
      [] OTHER -> AnyNil

-----------------------------------------------------------------------------
(* csv.go: the converter registries *)

MapPut(m, k, x) == [kk \in (DOMAIN m) \cup {k} |-> IF kk = k THEN x ELSE m[kk]]

\* m[k] of a Go map of converters: "nil" for the nil map and for a missing key
MapGet(h, ref, k) ==
    IF ref = NilMap THEN "nil"
    ELSE IF k \in DOMAIN h[ref] THEN h[ref][k] ELSE "nil"

GetConverterByColumnName(o, h, columnName) ==
    MapGet(h, o.customFieldConvertersByColumnName, columnName)

GetConverterByType(o, h, typ) ==
    MapGet(h, o.customFieldConvertersByType, typ)

\* GetConverterByTypePtrOrStruct with the exact lookup and the
\* pointer-to-struct retry in each other's place.
GetConverterByTypePtrFirst(o, h, typ) ==
    LET viaPtr == IF Kind(typ) = "Struct"
                  THEN GetConverterByType(o, h, PointerTo(typ)) ELSE "nil"
    IN  IF viaPtr # "nil" THEN [converter |-> viaPtr, convertToElem |-> TRUE]
        ELSE [converter |-> GetConverterByType(o, h, typ), convertToElem |-> FALSE]

GetConverterByTypePtrOrStruct(o, h, typ) ==
    LET exact == GetConverterByType(o, h, typ) IN
    IF exact # "nil" THEN [converter |-> exact, convertToElem |-> FALSE]
    ELSE IF Kind(typ) = "Struct"
         THEN LET viaPtr == GetConverterByType(o, h, PointerTo(typ)) IN
              [converter |-> viaPtr, convertToElem |-> viaPtr # "nil"]
         ELSE [converter |-> "nil", convertToElem |-> FALSE]

-----------------------------------------------------------------------------
(* The FieldConverter functions callers register.  ItemNumConv, ColorConv *)
(* and ColorFlagsConv are the tests'; ItemValueConv is ItemNumConv         *)
(* returning the struct instead of a pointer to it; ItemNumOnlyConv reads  *)
(* the whole cell as the Num of an ItemNum.  None of them reads obj.       *)

RedStr == <<"R", "e", "d">>
GreenStr == <<"G", "r", "e", "e", "n">>
BlueStr == <<"B", "l", "u", "e">>
YellowStr == <<"Y", "e", "l", "l", "o", "w">>
GrayStr == <<"G", "r", "a", "y">>
NoneStr == <<"N", "o", "n", "e">>
CfgIdAliasStr == <<"c", "f", "g", "_", "i", "d">>

Converters ==
    {"ItemNumConv", "ItemValueConv", "ItemNumOnlyConv", "ColorConv", "ColorFlagsConv",
     "ColorPtrConv"}

ItemNum(cfgId, num) == [n \in {CfgIdStr, NumStr} |-> IF n = CfgIdStr THEN cfgId ELSE num]

\* Color_value["Color_" + s]: 0 stands for a missing key as well as Color_None
ColorValue(s) ==
    CASE s = RedStr -> 1 [] s = GreenStr -> 2 [] s = BlueStr -> 3
      [] s = YellowStr -> 4 [] s = GrayStr -> 5 [] OTHER -> 0

\* flags |= 1 << (colorValue - 1) for the colour values vals
FlagsOf(vals) ==
    LET Bit(v, w) == IF v \in vals THEN w ELSE 0
    IN  Bit(1, 1) + Bit(2, 2) + Bit(3, 4) + Bit(4, 8) + Bit(5, 16)

ColorValues(toks) == { ColorValue(toks[i]) : i \in 1..Len(toks) }

\* The flags of the colours named by the tokens of the cell
ColorFlags(fieldStr) == FlagsOf(ColorValues(Split(fieldStr, <<";">>)))

\* &ItemNum{...} or ItemNum{...} as an interface value
BoxItemNum(asPointer, item) ==
    IF asPointer THEN AnyOf("*ItemNum", PtrTo(item)) ELSE AnyOf("ItemNum", item)

\* if len(strs) != 2 { return nil }; the ItemNum of the two numbers
ItemNumFrom(strs, asPointer) ==
    IF Len(strs) # 2 THEN AnyNil
    ELSE BoxItemNum(asPointer, ItemNum(Atoi(strs[1]), Atoi(strs[2])))

ApplyConverter(conv, columnName, fieldStr) ==
    CASE conv = "ItemNumConv" -> ItemNumFrom(Split(fieldStr, <<"_">>), TRUE)
      [] conv = "ItemValueConv" -> ItemNumFrom(Split(fieldStr, <<"_">>), FALSE)
      [] conv = "ItemNumOnlyConv" -> AnyOf("ItemNum", ItemNum(0, Atoi(fieldStr)))
      [] conv = "ColorConv" -> AnyOf("Color", ColorValue(fieldStr))
      [] conv = "ColorFlagsConv" -> AnyOf("int32", ColorFlags(fieldStr))
      [] conv = "ColorPtrConv" -> AnyOf("*Color", PtrTo(ColorValue(fieldStr)))

-----------------------------------------------------------------------------
(* convert.go: the field populator.  A populating operator returns        *)
(* [val, panic, log]: the value the slot holds afterwards (its old value   *)
(* when nothing is assigned), whether reflect panicked, and the records    *)
(* logged, in order.                                                       *)

Outcome(v, p, l) == [val |-> v, panic |-> p, log |-> l]

LogEv(ev, col) == [ev |-> ev, col |-> col, conv |-> "nil", str |-> <<>>]

\* A converter invoked with (obj, columnName, fieldStr)
CallEv(conv, col, str) == [ev |-> "call", col |-> col, conv |-> conv, str |-> str]

\* fieldVal.Set(reflect.ValueOf(v)): panics on the zero Value of a nil v and
\* on a value whose type is not the slot's
SetAny(t, cur, v, columnName, l) ==
    IF v = AnyNil \/ v.type # t
    THEN Outcome(cur, TRUE, Append(l, LogEv("panic", columnName)))
    ELSE Outcome(v.val, FALSE, l)

\* fieldVal.Set(reflect.ValueOf(v).Elem()): v has to be a non-nil pointer to
\* a value of the slot's type
SetAnyElem(t, cur, v, columnName, l) ==
    IF v = AnyNil \/ Kind(v.type) # "Ptr" \/ Elem(v.type) # t \/ v.val = NilPtr
    THEN Outcome(cur, TRUE, Append(l, LogEv("panic", columnName)))
    ELSE Outcome(v.val.elem, FALSE, l)

\* strconv.ParseInt(s, 10, 64) wrapped: 0 on a parse error
Atoi64(s) == Atoi(s)

\* The slot handed to ConvertStringToFieldValue for a field of type ft: the
\* freshly allocated pointee of a pointer field, the field itself otherwise.
SlotType(ft) == IF Kind(ft) = "Ptr" THEN Elem(ft) ELSE ft

SlotStart(ft, held) == IF Kind(ft) = "Ptr" THEN Zero(Elem(ft)) ELSE held

\* What the field holds once its slot holds v
SlotHolder(ft, v) == IF Kind(ft) = "Ptr" THEN PtrTo(v) ELSE v

RECURSIVE ConvertStringToFieldValue(_, _, _, _, _, _, _)
RECURSIVE StructPairsLoop(_, _, _, _, _, _, _)
RECURSIVE SliceLoop(_, _, _, _)
RECURSIVE MapLoop(_, _, _, _)

\* The end of one iteration of the slice loop: reflect.Append done
SliceAppended(sArray, elems, appended, ctx) ==
    IF appended.panic THEN Outcome(elems, TRUE, appended.log)
    ELSE SliceLoop(Tail(sArray), Append(elems, appended.val), appended.log, ctx)

\* if sliceElemValue == nil { continue }, then reflect.Append
SliceAppend(sArray, elems, l, sliceElemValue, ctx) ==
    IF sliceElemValue = AnyNil
    THEN SliceLoop(Tail(sArray), elems,
                   Append(l, LogEv("slice item parse error", ctx.columnName)), ctx)
    ELSE SliceAppended(sArray, elems,
             IF ctx.convertToElem
             THEN SetAnyElem(ctx.elemType, <<>>, sliceElemValue, ctx.columnName, l)
             ELSE SetAny(ctx.elemType, <<>>, sliceElemValue, ctx.columnName, l),
             ctx)

\* sliceElemValue = fieldObj.Interface() for the struct element sub decoded
SliceElemStruct(sArray, elems, l, sub, ctx) ==
    IF sub.panic THEN Outcome(elems, TRUE, l \o sub.log)
    ELSE SliceAppend(sArray, elems, l \o sub.log,
                     AnyOf(PointerTo(ctx.sliceElemType), PtrTo(sub.val)), ctx)

\* for _, str := range sArray of the reflect.Slice case; ctx holds what the
\* loop does not change
SliceLoop(sArray, elems, l, ctx) ==
    IF sArray = <<>> THEN Outcome(elems, FALSE, l)
    ELSE IF Head(sArray) = <<>> THEN SliceLoop(Tail(sArray), elems, l, ctx)
    ELSE IF ctx.converter # "nil"
    THEN SliceAppend(sArray, elems,
                     Append(l, CallEv(ctx.converter, ctx.columnName, Head(sArray))),
                     ApplyConverter(ctx.converter, ctx.columnName, Head(sArray)), ctx)
    ELSE IF Kind(ctx.sliceElemType) = "Struct"
    THEN SliceElemStruct(sArray, elems, l,
             ConvertStringToFieldValue(ctx.sliceElemType, Zero(ctx.sliceElemType),
                                       <<>>, Head(sArray), ctx.o, ctx.h, ctx.isSubStruct),
             ctx)
    ELSE SliceAppend(sArray, elems, l,
                     ConvertStringToRealType(ctx.sliceElemType, Head(sArray)), ctx)

\* fieldVal.Set(newSlice)
SliceAssign(cur, r) ==
    IF r.panic THEN Outcome(cur, TRUE, r.log)
    ELSE Outcome(MadeSlice(r.val), FALSE, r.log)

\* The reflect.Slice case for a non-empty cell; c is what
\* GetConverterByTypePtrOrStruct returned for the element type
SliceDecode(cur, fieldString, columnName, elemType, c, o, h, isSubStruct) ==
    SliceAssign(cur,
        SliceLoop(Split(fieldString, o.SliceSeparator), <<>>, <<>>,
            [ elemType |-> elemType,
              sliceElemType |->
                  IF /\ c.converter = "nil"
                     /\ Kind(elemType) = "Ptr"
                     /\ Kind(Elem(elemType)) = "Struct"
                  THEN Elem(elemType) ELSE elemType,
              converter |-> c.converter,
              convertToElem |->
                  IF c.converter = "nil" /\ Kind(elemType) = "Struct"
                  THEN TRUE ELSE c.convertToElem,
              columnName |-> columnName, o |-> o, h |-> h,
              isSubStruct |-> isSubStruct ]))

\* newMap.SetMapIndex(key, value) done: stored is the value as assigned
MapStored(pairs, m, fieldKeyValue, stored, ctx) ==
    IF stored.panic THEN Outcome(m, TRUE, stored.log)
    ELSE IF fieldKeyValue = AnyNil
    THEN Outcome(m, TRUE, Append(stored.log, LogEv("panic", ctx.columnName)))
    ELSE MapLoop(Tail(pairs), MapPut(m, fieldKeyValue.val, stored.val), stored.log, ctx)

\* if fieldValueValue == nil { continue }, then newMap.SetMapIndex
MapStore(pairs, m, l, fieldValueValue, ctx) ==
    IF fieldValueValue = AnyNil
    THEN MapLoop(Tail(pairs), m,
                 Append(l, LogEv("map value parse error", ctx.columnName)), ctx)
    ELSE MapStored(pairs, m,
             ConvertStringToRealType(ctx.fieldKeyType, Head(pairs).Key),
             IF ctx.convertToElem
             THEN SetAnyElem(ctx.fieldValueType, <<>>, fieldValueValue, ctx.columnName, l)
             ELSE SetAny(ctx.fieldValueType, <<>>, fieldValueValue, ctx.columnName, l),
             ctx)

\* for _, pair := range pairs of the reflect.Map case
MapLoop(pairs, m, l, ctx) ==
    IF pairs = <<>> THEN Outcome(m, FALSE, l)
    ELSE IF ctx.converter # "nil"
    THEN MapStore(pairs, m,
                  Append(l, CallEv(ctx.converter, ctx.columnName, Head(pairs).Value)),
                  ApplyConverter(ctx.converter, ctx.columnName, Head(pairs).Value), ctx)
    ELSE MapStore(pairs, m, l,
                  ConvertStringToRealType(ctx.fieldValueType, Head(pairs).Value), ctx)

\* fieldVal.Set(newMap)
MapAssign(cur, r) ==
    IF r.panic THEN Outcome(cur, TRUE, r.log)
    ELSE Outcome(MadeMap(r.val), FALSE, r.log)

\* The reflect.Map case for a non-empty cell; c is what
\* GetConverterByTypePtrOrStruct returned for the value type
MapDecode(cur, fieldString, columnName, t, c, o) ==
    MapAssign(cur,
        MapLoop(ParsePairString(fieldString, o), <<>>, <<>>,
            [ fieldKeyType |-> Key(t), fieldValueType |-> Elem(t),
              converter |-> c.converter, convertToElem |-> c.convertToElem,
              columnName |-> columnName ]))

\* The end of one iteration of the struct loop: the sub-field decoded as r
StructPairsNext(t, cur, pairs, columnName, o, h, l, r) ==
    LET key  == Head(pairs).Key
        next == [cur EXCEPT ![key] = SlotHolder(FieldType(t, key), r.val)]
    IN  IF r.panic THEN Outcome(next, TRUE, l \o r.log)
        ELSE StructPairsLoop(t, next, Tail(pairs), columnName, o, h, l \o r.log)

\* StructPairsLoop without the one-level limit: the sub-fields are decoded as
\* top-level fields are.
StructPairsLoopNoLimit(t, cur, pairs, columnName, o, h, l) ==
    IF pairs = <<>> THEN Outcome(cur, FALSE, l)
    ELSE IF FieldType(t, Head(pairs).Key) = "invalid"
    THEN StructPairsLoop(t, cur, Tail(pairs), columnName, o, h,
                         Append(l, LogEv("fieldValue convert error", columnName)))
    ELSE StructPairsNext(t, cur, pairs, columnName, o, h, l,
             ConvertStringToFieldValue(
                 SlotType(FieldType(t, Head(pairs).Key)),
                 SlotStart(FieldType(t, Head(pairs).Key), cur[Head(pairs).Key]),
                 Head(pairs).Key, Head(pairs).Value, o, h, FALSE))

\* for _, pair := range pairs of the reflect.Struct case
StructPairsLoop(t, cur, pairs, columnName, o, h, l) ==
    IF pairs = <<>> THEN Outcome(cur, FALSE, l)
    ELSE IF FieldType(t, Head(pairs).Key) = "invalid"
    THEN StructPairsLoop(t, cur, Tail(pairs), columnName, o, h,
                         Append(l, LogEv("fieldValue convert error", columnName)))
    ELSE StructPairsNext(t, cur, pairs, columnName, o, h, l,
             ConvertStringToFieldValue(
                 SlotType(FieldType(t, Head(pairs).Key)),
                 SlotStart(FieldType(t, Head(pairs).Key), cur[Head(pairs).Key]),
                 Head(pairs).Key, Head(pairs).Value, o, h, TRUE))

\* The switch on fieldVal.Type().Kind() of ConvertStringToFieldValue.
KindDecode(t, cur, columnName, fieldString, o, h, isSubStruct) ==
    CASE Kind(t) \in {"Int", "Int32"} -> Outcome(Atoi64(fieldString), FALSE, <<>>)
      [] Kind(t) = "String" -> Outcome(fieldString, FALSE, <<>>)
      [] Kind(t) = "Bool" -> Outcome(ParseBool(fieldString), FALSE, <<>>)
      [] Kind(t) = "Struct" ->
             IF isSubStruct
             THEN Outcome(cur, FALSE, <<LogEv("not support sub struct of sub struct", columnName)>>)
             ELSE StructPairsLoop(t, cur, ParsePairString(fieldString, o),
                                  columnName, o, h, <<>>)
      [] Kind(t) = "Slice" ->
             IF fieldString = <<>> THEN Outcome(cur, FALSE, <<>>)
             ELSE SliceDecode(cur, fieldString, columnName, Elem(t),
                              GetConverterByTypePtrOrStruct(o, h, Elem(t)),
                              o, h, isSubStruct)
      [] Kind(t) = "Map" ->
             IF fieldString = <<>> THEN Outcome(cur, FALSE, <<>>)
             ELSE MapDecode(cur, fieldString, columnName, t,
                            GetConverterByTypePtrOrStruct(o, h, Elem(t)), o)
      [] OTHER -> Outcome(cur, FALSE, <<LogEv("unsupported kind", columnName)>>)

\* The result v of a converter registered by type: nil is a parse error
SetConverted(t, cur, columnName, convertFieldToElem, v, l) ==
    IF v = AnyNil
    THEN Outcome(cur, FALSE, Append(l, LogEv("field parse error", columnName)))
    ELSE IF convertFieldToElem THEN SetAnyElem(t, cur, v, columnName, l)
    ELSE SetAny(t, cur, v, columnName, l)

\* ConvertStringToFieldValue once the registries have been asked: byName
\* the converter of the column name, byType that of the type
ConvertResolved(t, cur, columnName, fieldString, o, h, isSubStruct, byName, byType) ==
    IF byName # "nil"
    THEN SetAny(t, cur, ApplyConverter(byName, columnName, fieldString),
                columnName, <<CallEv(byName, columnName, fieldString)>>)
    ELSE IF byType.converter # "nil"
    THEN SetConverted(t, cur, columnName, byType.convertToElem,
                      ApplyConverter(byType.converter, columnName, fieldString),
                      <<CallEv(byType.converter, columnName, fieldString)>>)
    ELSE KindDecode(t, cur, columnName, fieldString, o, h, isSubStruct)

\* ConvertStringToFieldValue for a valid, settable fieldVal of type t holding
\* cur.  The registries are asked only outside a sub-struct.
ConvertStringToFieldValue(t, cur, columnName, fieldString, o, h, isSubStruct) ==
    ConvertResolved(t, cur, columnName, fieldString, o, h, isSubStruct,
        IF isSubStruct THEN "nil" ELSE GetConverterByColumnName(o, h, columnName),
        IF isSubStruct THEN [converter |-> "nil", convertToElem |-> FALSE]
        ELSE GetConverterByTypePtrOrStruct(o, h, t))

-----------------------------------------------------------------------------
(* The record assemblers and the ReadCsvFromData* entry points.            *)

\* fieldVal.Set(fieldObj) for a pointer field, and the slot decoded as r
StoreField(rec, fieldName, ft, r) ==
    Outcome([rec EXCEPT ![fieldName] = SlotHolder(ft, r.val)], r.panic, r.log)

\* One column of ConvertCsvLineToValue, one row of ReadCsvFromDataObject:
\* resolve the field, allocate the pointee of a pointer field and assign the
\* pointer, then ConvertStringToFieldValue.  fieldName is the name the slot
\* was resolved by, columnName the name passed on; a name that is no field
\* gives the zero Value, which ConvertStringToFieldValue logs and leaves.
PopulateField(recType, rec, fieldName, columnName, fieldString, o, h) ==
    IF FieldType(recType, fieldName) = "invalid"
    THEN Outcome(rec, FALSE, <<LogEv("unknown column", columnName)>>)
    ELSE StoreField(rec, fieldName, FieldType(recType, fieldName),
             ConvertStringToFieldValue(
                 SlotType(FieldType(recType, fieldName)),
                 SlotStart(FieldType(recType, fieldName), rec[fieldName]),
                 columnName, fieldString, o, h, FALSE))

RECURSIVE ColumnLoop(_, _, _, _, _, _, _, _)

\* The end of one iteration of the column loop: the column populated as r
ColumnNext(recType, r, l, columnIndex, row, columnNames, o, h) ==
    IF r.panic THEN Outcome(r.val, TRUE, l \o r.log)
    ELSE ColumnLoop(recType, r.val, l \o r.log, columnIndex + 1, row, columnNames, o, h)

\* for columnIndex := 0; columnIndex < len(columnNames); columnIndex++
ColumnLoop(recType, rec, l, columnIndex, row, columnNames, o, h) ==
    IF columnIndex >= Len(columnNames) THEN Outcome(rec, FALSE, l)
    ELSE IF columnIndex >= Len(row)
    THEN Outcome(rec, TRUE, Append(l, LogEv("panic", columnNames[columnIndex + 1])))
    ELSE ColumnNext(recType,
             PopulateField(recType, rec, columnNames[columnIndex + 1],
                           columnNames[columnIndex + 1], row[columnIndex + 1], o, h),
             l, columnIndex, row, columnNames, o, h)

\* return newObject: the record, a pointer to it when valueType is a pointer
NewObject(valueType, r) == Outcome(SlotHolder(valueType, r.val), r.panic, r.log)

\* The record of one data row.
ConvertCsvLineToValue(valueType, row, columnNames, o, h) ==
    NewObject(valueType,
        ColumnLoop(SlotType(valueType), Zero(SlotType(valueType)), <<>>, 0,
                   row, columnNames, o, h))

Returned(d, e, l) == [dest |-> d, err |-> e, log |-> l]

\* HeaderError without the test of DataBeginRowIndex.
HeaderErrorAnyBeginRow(rows, o) ==
    IF Len(rows) = 0 THEN "no csv header"
    ELSE IF Len(rows) <= o.ColumnNameRowIndex THEN "no column name header"
    ELSE IF Len(rows[o.ColumnNameRowIndex + 1]) = 0 THEN "no column"
    ELSE "nil"

\* The checks ReadCsvFromDataMap and ReadCsvFromDataSlice start with:
\* the error returned, "nil" when the rows pass.
HeaderError(rows, o) ==
    IF Len(rows) = 0 THEN "no csv header"
    ELSE IF Len(rows) <= o.ColumnNameRowIndex THEN "no column name header"
    ELSE IF Len(rows[o.ColumnNameRowIndex + 1]) = 0 THEN "no column"
    ELSE IF o.DataBeginRowIndex < 1 THEN "DataBeginRowIndex must >=1"
    ELSE "nil"

RECURSIVE MapRowLoop(_, _, _, _, _, _, _, _, _)

\* mVal.SetMapIndex(reflect.ValueOf(key), value) and the next row
MapRowNext(m, l, key, value, rowIndex, rows, columnNames, keyType, valueType, o, h) ==
    IF value.panic THEN Returned(m, "panic", l \o value.log)
    ELSE IF key = AnyNil \/ key.type # keyType
    THEN Returned(m, "panic", Append(l \o value.log, LogEv("panic", <<>>)))
    ELSE MapRowLoop(MapPut(m, key.val, value.val), l \o value.log,
                    rowIndex + 1, rows, columnNames, keyType, valueType, o, h)

\* for rowIndex := option.DataBeginRowIndex; rowIndex < len(rows); rowIndex++
MapRowLoop(m, l, rowIndex, rows, columnNames, keyType, valueType, o, h) ==
    IF rowIndex >= Len(rows) THEN Returned(m, "nil", l)
    ELSE IF Len(rows[rowIndex + 1]) = 0
    THEN Returned(m, "panic", Append(l, LogEv("panic", <<>>)))
    ELSE MapRowNext(m, l,
             ConvertStringToRealType(keyType, rows[rowIndex + 1][1]),
             ConvertCsvLineToValue(valueType, rows[rowIndex + 1], columnNames, o, h),
             rowIndex, rows, columnNames, keyType, valueType, o, h)

\* ReadCsvFromDataMap(rows, m, option) for m of type map[keyType]valueType
ReadCsvFromDataMap(rows, m, keyType, valueType, o, h) ==
    IF HeaderError(rows, o) # "nil" THEN Returned(m, HeaderError(rows, o), <<>>)
    ELSE MapRowLoop(m, <<>>, o.DataBeginRowIndex, rows,
                    rows[o.ColumnNameRowIndex + 1], keyType, valueType, o, h)

RECURSIVE SliceRowLoop(_, _, _, _, _, _, _, _)

\* s = slices.Insert(s, len(s), value) and the next row
SliceRowNext(s, l, value, rowIndex, rows, columnNames, valueType, o, h) ==
    IF value.panic THEN Returned(s, "panic", l \o value.log)
    ELSE SliceRowLoop(Append(s, value.val), l \o value.log, rowIndex + 1,
                      rows, columnNames, valueType, o, h)

SliceRowLoop(s, l, rowIndex, rows, columnNames, valueType, o, h) ==
    IF rowIndex >= Len(rows) THEN Returned(s, "nil", l)
    ELSE SliceRowNext(s, l,
             ConvertCsvLineToValue(valueType, rows[rowIndex + 1], columnNames, o, h),
             rowIndex, rows, columnNames, valueType, o, h)

\* ReadCsvFromDataSlice(rows, s, option) for s of type []valueType
ReadCsvFromDataSlice(rows, s, valueType, o, h) ==
    IF HeaderError(rows, o) # "nil" THEN Returned(s, HeaderError(rows, o), <<>>)
    ELSE SliceRowLoop(s, <<>>, o.DataBeginRowIndex, rows,
                      rows[o.ColumnNameRowIndex + 1], valueType, o, h)

\* getAliasNameMap: the names a record type's struct tags give its fields.
getAliasNameMap(recType, o) ==
    IF recType = "Cfg" /\ ~o.DisableProtobufAliasName
    THEN [a \in {CfgIdAliasStr} |-> CfgIdStr]
    ELSE <<>>

\* The field a key-value row names: the column name, or the field its alias
\* stands for when it is no field itself.
ResolveName(recType, columnName, aliasNames) ==
    IF FieldType(recType, columnName) = "invalid" /\ columnName \in DOMAIN aliasNames
    THEN aliasNames[columnName] ELSE columnName

RECURSIVE ObjectRowLoop(_, _, _, _, _, _, _)

ObjectRowNext(r, l, rowIndex, rows, recType, o, h) ==
    IF r.panic THEN Returned(r.val, "panic", l \o r.log)
    ELSE ObjectRowLoop(r.val, l \o r.log, rowIndex + 1, rows, recType, o, h)

\* for rowIndex := option.ObjectDataBeginRowIndex; rowIndex < len(rows); rowIndex++
ObjectRowLoop(obj, l, rowIndex, rows, recType, o, h) ==
    IF rowIndex >= Len(rows) THEN Returned(obj, "nil", l)
    ELSE IF Len(rows[rowIndex + 1]) < 2
    THEN Returned(obj, "panic", Append(l, LogEv("panic", <<>>)))
    ELSE ObjectRowNext(
             PopulateField(recType, obj,
                 ResolveName(recType, rows[rowIndex + 1][1], getAliasNameMap(recType, o)),
                 rows[rowIndex + 1][1], rows[rowIndex + 1][2], o, h),
             l, rowIndex, rows, recType, o, h)

\* ReadCsvFromDataObject(rows, v, option) for v of type vType holding obj
ReadCsvFromDataObject(rows, obj, vType, o, h) ==
    IF Len(rows) = 0 THEN Returned(obj, "no csv header", <<>>)
    ELSE IF Len(rows[1]) < 2 THEN Returned(obj, "column count must >= 2", <<>>)
    ELSE IF o.ObjectDataBeginRowIndex < 1
    THEN Returned(obj, "ObjectDataBeginRowIndex must >=1", <<>>)
    ELSE IF Kind(vType) # "Ptr" THEN Returned(obj, "v must be Ptr", <<>>)
    ELSE ObjectRowLoop(obj, <<>>, o.ObjectDataBeginRowIndex, rows, Elem(vType), o, h)

-----------------------------------------------------------------------------
(* The state before any call, and the calls of the parser entry points.    *)

NoResult == [panic |-> FALSE]

InitWith(opt) ==
    /\ option = [v \in OptionVars |-> IF v = "option" THEN opt ELSE DefaultOption]
    /\ heap = <<>>
    /\ op = "none"
    /\ args = <<>>
    /\ result = NoResult
    /\ dest = <<>>
    /\ err = "none"
    /\ log = <<>>

\* Inputs of ParsePairString: separators a caller may configure, and the
\* keys and values of the pairs a cell is written from.
MaxPairs == 2

Separators == { <<"_">>, <<"#">>, <<";">>, <<"#", "_">>, <<"_", "#">> }

Tokens == { <<>>, <<"a">>, <<"_">>, <<"#">> }

SeqsUpTo(S, n) == UNION { [1..k -> S] : k \in 0..n }

WrittenPairs == SeqsUpTo([Key : Tokens, Value : Tokens], MaxPairs)

RECURSIVE JoinStrings(_, _)
\* strings.Join
JoinStrings(parts, sep) ==
    IF parts = <<>> THEN <<>>
    ELSE IF Len(parts) = 1 THEN parts[1]
    ELSE parts[1] \o sep \o JoinStrings(Tail(parts), sep)

\* The cell written for a sequence of pairs: key kvSep value, joined by pairSep.
JoinPairs(pairs, kvSep, pairSep) ==
    JoinStrings([i \in 1..Len(pairs) |-> pairs[i].Key \o kvSep \o pairs[i].Value], pairSep)

InitPairs ==
    \E kv \in Separators, pr \in Separators :
        InitWith([DefaultOption EXCEPT !.KvSeparator = kv, !.PairSeparator = pr])

ParsePairStringCall ==
    /\ op = "none"
    /\ \E ptr \in OptionPtrs, pairs \in WrittenPairs :
           LET o    == OrDefault(option, ptr)
               cell == JoinPairs(pairs, o.KvSeparator, o.PairSeparator)
           IN  /\ op' = "ParsePairString"
               /\ args' = [cellString |-> cell, option |-> ptr, written |-> pairs]
               /\ result' = [panic |-> FALSE, pairs |-> ParsePairString(cell, o)]
    /\ UNCHANGED <<option, heap, dest, err, log>>

NextPairs == ParsePairStringCall

SpecPairs == InitPairs /\ [][NextPairs]_vars

\* Inputs of ParseNestString and ParseNestStringSlice: cells written as
\* groups of items, an item a flat pair key_value or a nested pair
\* key_{content}, and the nested field names in some order.
MaxItems == 3

FlatItems == [key : {<<"a">>, <<"b">>}, val : {<<"1">>}, nest : {FALSE}]

NestContents == { <<"a", "_", "1">>, <<"a", "_", "1", ";", "b", "_", "2">>,
                  <<"a", "_", "1", "#", "b", "_", "2">> }

NestNames == { <<"X">>, <<"Y">> }

NestItems == [key : NestNames, val : NestContents, nest : {TRUE}]

DistinctKeys(g) == \A i, j \in 1..Len(g) : g[i].key = g[j].key => i = j

Groups(n) == { g \in SeqsUpTo(FlatItems \cup NestItems, n) : Len(g) >= 1 /\ DistinctKeys(g) }


\* TestParseNestString's cell:
\* CfgId_1#ConsumeItems_{CfgId_1#Num_2;CfgId_2#Num_3}#Rewards_{CfgId_1#Num_1}#CountLimit_2
TestNestGroup ==
    << [key |-> CfgIdStr, val |-> <<"1">>, nest |-> FALSE],
       [key |-> ConsumeItemsStr, nest |-> TRUE,
        val |-> CfgIdStr \o <<"_", "1", "#">> \o NumStr \o <<"_", "2", ";">>
                \o CfgIdStr \o <<"_", "2", "#">> \o NumStr \o <<"_", "3">>],
       [key |-> RewardsStr, nest |-> TRUE,
        val |-> CfgIdStr \o <<"_", "1", "#">> \o NumStr \o <<"_", "1">>],
       [key |-> CountLimitStr, val |-> <<"2">>, nest |-> FALSE] >>

TestNestNames == <<ConsumeItemsStr, RewardsStr>>

NameOrders == { <<>>, <<<<"X">>>>, <<<<"Y">>>>, <<<<"X">>, <<"Y">>>>, <<<<"Y">>, <<"X">>>> }

RenderItem(it, o) ==
    IF it.nest THEN it.key \o o.KvSeparator \o <<"{">> \o it.val \o <<"}">>
    ELSE it.key \o o.KvSeparator \o it.val

RenderGroup(g, o) ==
    JoinStrings([i \in 1..Len(g) |-> RenderItem(g[i], o)], o.PairSeparator)

RenderCell(gs, o) ==
    JoinStrings([i \in 1..Len(gs) |-> RenderGroup(gs[i], o)], o.SliceSeparator)

NestInputs ==
    { [written |-> <<g>>, names |-> ns] : g \in Groups(MaxItems), ns \in NameOrders }
    \cup { [written |-> <<TestNestGroup>>, names |-> TestNestNames] }

NestSliceInputs ==
    { [written |-> <<g>>, names |-> ns] : g \in Groups(MaxItems - 1), ns \in NameOrders }
    \cup { [written |-> <<g, h>>, names |-> ns] :
               g \in Groups(MaxItems - 1), h \in Groups(MaxItems - 1),
               ns \in NameOrders }

ParseNestStringCall ==
    /\ op = "none"
    /\ \E ptr \in OptionPtrs, in \in NestInputs :
           LET o    == OrDefault(option, ptr)
               cell == RenderCell(in.written, o)
           IN  /\ op' = "ParseNestString"
               /\ args' = [cellString |-> cell, option |-> ptr,
                           nestFieldNames |-> in.names, written |-> in.written]
               /\ result' = ParseNestString(cell, o, in.names)
    /\ UNCHANGED <<option, heap, dest, err, log>>

ParseNestStringSliceCall ==
    /\ op = "none"
    /\ \E ptr \in OptionPtrs, in \in NestSliceInputs :
           LET o    == OrDefault(option, ptr)
               cell == RenderCell(in.written, o)
           IN  /\ op' = "ParseNestStringSlice"
               /\ args' = [cellString |-> cell, option |-> ptr,
                           nestFieldNames |-> in.names, written |-> in.written]
               /\ result' = ParseNestStringSlice(cell, ptr = "nil", o, in.names)
    /\ UNCHANGED <<option, heap, dest, err, log>>

InitNest == InitWith(DefaultOption)

NextNest == ParseNestStringCall \/ ParseNestStringSliceCall

SpecNest == InitNest /\ [][NextNest]_vars

-----------------------------------------------------------------------------
(* The placeholder loop of ParseNestStringSlice, one iteration a step: the  *)
(* cells are all short strings of a digit, the separator and the braces,    *)
(* the nested field names a digit and the empty name.                       *)

MaxParts == 5

CellParts == { <<"1">>, <<"_">>, <<"_", "{">>, <<"{">>, <<"}">> }

RECURSIVE Concat(_)
Concat(parts) == IF parts = <<>> THEN <<>> ELSE Head(parts) \o Concat(Tail(parts))

LoopCells == { Concat(parts) : parts \in SeqsUpTo(CellParts, MaxParts) }

LoopNames == { <<<<"1">>>>, <<<<>>>>, <<<<"1">>, <<>>>> }

\* idCounter := 0; replaceKeys := make(...); s := cellString
ReplaceStart ==
    /\ op = "none"
    /\ \E cell \in LoopCells, names \in LoopNames :
           /\ op' = "ParseNestStringSlice.replace"
           /\ args' = [cellString |-> cell, option |-> "option", nestFieldNames |-> names]
           /\ result' = [panic |-> FALSE, broke |-> FALSE, idCounter |-> 0,
                         replaceKeys |-> <<>>, s |-> cell, names |-> names]
    /\ UNCHANGED <<option, heap, dest, err, log>>

\* One iteration of the inner loop for the nested field name at hand; when
\* it breaks the outer loop moves to the next name.
ReplaceStep ==
    /\ op = "ParseNestStringSlice.replace"
    /\ ~result.panic
    /\ result.names # <<>>
    /\ LET r == ReplaceOnce([result EXCEPT !.broke = FALSE], Head(result.names),
                            option["option"].KvSeparator)
       IN  result' = IF r.broke THEN [r EXCEPT !.names = Tail(@)] ELSE r
    /\ UNCHANGED <<option, heap, op, args, dest, err, log>>

NextReplace == ReplaceStart \/ ReplaceStep

SpecReplace == InitNest /\ [][NextReplace]_vars /\ WF_vars(ReplaceStep)

-----------------------------------------------------------------------------
(* The populator: a caller registers converters on its own CsvOption, then *)
(* reads a table into a map, a slice or an object.                         *)

MaxRows == 2

\* The CsvOption variables registrations are made through.
RegisterThrough == {"option"}

\* RegisterConverterByColumnName's arguments
NameRegistrations ==
    { [key |-> ItemStructStr, converter |-> "ItemValueConv"],
      [key |-> ColorFlagsStr, converter |-> "ColorFlagsConv"] }

\* RegisterConverterByType's arguments
TypeRegistrations ==
    { [key |-> "*ItemNum", converter |-> "ItemNumConv"],
      [key |-> "ItemNum", converter |-> "ItemNumOnlyConv"],
      [key |-> "Color", converter |-> "ColorConv"] }

\* if co.<registry> == nil { co.<registry> = make(map...) }
\* co.<registry>[key] = converter
\* The options and the heap after the registration through variable v.
Registered(opts, h, v, registry, key, converter) ==
    IF opts[v][registry] = NilMap
    THEN [ option |-> [opts EXCEPT ![v][registry] = Len(h) + 1],
           heap   |-> Append(h, MapPut(<<>>, key, converter)) ]
    ELSE [ option |-> opts,
           heap   |-> [h EXCEPT ![opts[v][registry]] = MapPut(@, key, converter)] ]

\* The state a registration leaves.
Register(after) ==
    /\ option' = after.option
    /\ heap' = after.heap
    /\ UNCHANGED <<op, args, result, dest, err, log>>

RegisterConverterByColumnName ==
    /\ op = "none"
    /\ \E v \in RegisterThrough, r \in NameRegistrations :
           Register(Registered(option, heap, v, "customFieldConvertersByColumnName",
                               r.key, r.converter))

RegisterConverterByType ==
    /\ op = "none"
    /\ \E v \in RegisterThrough, r \in TypeRegistrations :
           Register(Registered(option, heap, v, "customFieldConvertersByType",
                               r.key, r.converter))

Columns == FieldNames("Cfg") \cup {unknownColumnTestStr}

\* The headers: CfgId and one more column, or a column no field is named
\* after and then a column of a field.
Headers ==
    { <<CfgIdStr, c>> : c \in Columns \ {CfgIdStr} }
    \cup { <<unknownColumnTestStr, c>> : c \in {CfgIdStr, NameStr, ItemStructStr} }

\* The cells a column is filled from.
CellsOf(c) ==
    CASE c = CfgIdStr ->
             \* "1", "x"
             { <<"1">>,
               <<"x">> }
      [] c = NameStr ->
             \* "a", ""
             { <<"a">>,
               <<>> }
      [] c = UniqueStr ->
             \* "True", "0"
             { <<"T", "r", "u", "e">>,
               <<"0">> }
      [] c = ItemStr ->
             \* "1_2", "x", "CfgId_1#Num_2"
             { <<"1", "_", "2">>,
               <<"x">>,
               <<"C", "f", "g", "I", "d", "_", "1", "#", "N", "u", "m", "_", "2">> }
      [] c = ItemStructStr ->
             \* "1_2", "x", "Num_2#CfgId_1"
             { <<"1", "_", "2">>,
               <<"x">>,
               <<"N", "u", "m", "_", "2", "#", "C", "f", "g", "I", "d", "_", "1">> }
      [] c = ItemsStr ->
             \* "1_2;3_4", "1_2;x", "CfgId_1#Num_2;Num_3", ""
             { <<"1", "_", "2", ";", "3", "_", "4">>,
               <<"1", "_", "2", ";", "x">>,
               <<"C", "f", "g", "I", "d", "_", "1", "#", "N", "u", "m", "_", "2", ";", "N", "u", "m", "_", "3">>,
               <<>> }
      [] c = ItemStructsStr ->
             \* "1_2;3_4", "x;1_2", "CfgId_1;Num_3"
             { <<"1", "_", "2", ";", "3", "_", "4">>,
               <<"x", ";", "1", "_", "2">>,
               <<"C", "f", "g", "I", "d", "_", "1", ";", "N", "u", "m", "_", "3">> }
      [] c = ColorStr ->
             \* "Red", "2"
             { <<"R", "e", "d">>,
               <<"2">> }
      [] c = ColorFlagsStr ->
             \* "Red;Blue", "3"
             { <<"R", "e", "d", ";", "B", "l", "u", "e">>,
               <<"3">> }
      [] c = SliceTestStr ->
             \* "1;2;3", "", "1;;x", ";"
             { <<"1", ";", "2", ";", "3">>,
               <<>>,
               <<"1", ";", ";", "x">>,
               <<";">> }
      [] c = ColorsStr ->
             \* "Red;Blue", "1", ""
             { <<"R", "e", "d", ";", "B", "l", "u", "e">>,
               <<"1">>,
               <<>> }
      [] c = ChildStr ->
             \* "Name_a#Item_CfgId_1#SliceTest_5;6", "ItemPtr_Num_1#Name_b#Items_1_2", "Name_a"
             { <<"N", "a", "m", "e", "_", "a", "#", "I", "t", "e", "m", "_", "C", "f", "g", "I", "d", "_", "1", "#", "S", "l", "i", "c", "e", "T", "e", "s", "t", "_", "5", ";", "6">>,
               <<"I", "t", "e", "m", "P", "t", "r", "_", "N", "u", "m", "_", "1", "#", "N", "a", "m", "e", "_", "b", "#", "I", "t", "e", "m", "s", "_", "1", "_", "2">>,
               <<"N", "a", "m", "e", "_", "a">> }
      [] c = unknownColumnTestStr ->
             \* "123", ""
             { <<"1", "2", "3">>,
               <<>> }

\* The cell of the first column in data row i: "1", "2", ... under CfgId,
\* "123", "124", ... under unknownColumnTest.
KeyCell(k, i) == IF k = CfgIdStr THEN Itoa(i) ELSE Itoa(122 + i)

\* A header of two columns and the data rows of the cells cs.
TableOf(k, c, cs) ==
    <<<<k, c>>>> \o [i \in 1..Len(cs) |-> <<KeyCell(k, i), cs[i]>>]

\* The tables of up to n data rows.
TablesUpTo(n) ==
    UNION { { TableOf(hd[1], hd[2], cs) : cs \in SeqsUpTo(CellsOf(hd[2]), n) }
            : hd \in Headers }

Tables == TablesUpTo(MaxRows)

\* TestReadCsvFromDataObject's rows
SettingsRows ==
    << <<KeyStr, ValueStr, commentStr>>,
       <<ImageQualityStr, <<"1", "0", "0">>, commentStr>>,
       <<VolumeStr, <<"8", "0">>, commentStr>>,
       <<LanguageStr, <<"S", "i", "m", "p", "l", "i", "f", "i", "e", "d", " ", "C", "h", "i", "n", "e", "s", "e">>, commentStr>> >>

\* A table written as key-value rows: one (name, cell, comment) row per cell.
ObjectRows(table) ==
    LET header == table[1]
        n == Len(table) - 1
        w == Len(header)
    IN  <<<<KeyStr, ValueStr, commentStr>>>>
        \o [j \in 1..(n * w) |->
               <<header[((j - 1) % w) + 1],
                 table[((j - 1) \div w) + 2][((j - 1) % w) + 1],
                 commentStr>>]

\* Rows naming CfgId by its alias cfg_id.
AliasRows ==
    << <<KeyStr, ValueStr, commentStr>>, <<CfgIdAliasStr, <<"7">>, commentStr>>,
       <<NameStr, <<"a">>, commentStr>> >>

ObjectInputs ==
    { [rows |-> ObjectRows(t), vType |-> "*Cfg"] : t \in TablesUpTo(1) }
    \cup { [rows |-> SettingsRows, vType |-> "*Settings"],
           [rows |-> AliasRows, vType |-> "*Cfg"] }

\* The state a read leaves: the call, its destination, its error and the log.
Finish(name, a, r) ==
    /\ op' = name
    /\ args' = a
    /\ dest' = r.dest
    /\ err' = r.err
    /\ log' = r.log
    /\ UNCHANGED <<option, heap, result>>

\* m := make(map[int]*Cfg); err = ReadCsvFromDataMap(rows, m, option)
ReadCsvFromDataMapCall ==
    /\ op = "none"
    /\ \E ptr \in OptionPtrs, rows \in Tables :
           Finish("ReadCsvFromDataMap",
                  [rows |-> rows, option |-> ptr, valueType |-> "*Cfg"],
                  ReadCsvFromDataMap(rows, <<>>, "int", "*Cfg",
                                     OrDefault(option, ptr), heap))

\* s := make([]Cfg, 0); s, err = ReadCsvFromDataSlice(rows, s, option)
ReadCsvFromDataSliceCall ==
    /\ op = "none"
    /\ \E ptr \in OptionPtrs, rows \in TablesUpTo(1) :
           Finish("ReadCsvFromDataSlice",
                  [rows |-> rows, option |-> ptr, valueType |-> "Cfg"],
                  ReadCsvFromDataSlice(rows, <<>>, "Cfg",
                                       OrDefault(option, ptr), heap))

\* v := new(Cfg) or new(Settings); err = ReadCsvFromDataObject(rows, v, option)
ReadCsvFromDataObjectCall ==
    /\ op = "none"
    /\ \E ptr \in OptionPtrs, in \in ObjectInputs :
           Finish("ReadCsvFromDataObject",
                  [rows |-> in.rows, option |-> ptr, valueType |-> in.vType],
                  ReadCsvFromDataObject(in.rows, Zero(Elem(in.vType)), in.vType,
                                        OrDefault(option, ptr), heap))

\* The caller's option is a copy of DefaultOption set up for key-value rows.
Init == InitWith([DefaultOption EXCEPT !.ObjectDataBeginRowIndex = 1])

Next ==
    \/ RegisterConverterByColumnName
    \/ RegisterConverterByType
    \/ ReadCsvFromDataMapCall
    \/ ReadCsvFromDataSliceCall
    \/ ReadCsvFromDataObjectCall

Spec == Init /\ [][Next]_vars

-----------------------------------------------------------------------------
(* Records with map fields read into a map, after the MapTest column of    *)
(* TestReadCsvFromDataStruct and the ItemMap column of                     *)
(* TestReadCsvFromDataConverter.                                           *)

MapColumns == { MapTestStr, ItemMapStr, ColorMapStr }

\* The cells a map column is filled from.
MapCellsOf(c) ==
    CASE c = MapTestStr ->
             \* "a_1#b_2#c_3", "a_1#a_2", "", "a", "a_x#b_2"
             { <<"a", "_", "1", "#", "b", "_", "2", "#", "c", "_", "3">>,
               <<"a", "_", "1", "#", "a", "_", "2">>,
               <<>>,
               <<"a">>,
               <<"a", "_", "x", "#", "b", "_", "2">> }
      [] c = ItemMapStr ->
             \* "1_3_1#2_6_2", "1_3_1#1_4_2", "", "1_x#2_6_2"
             { <<"1", "_", "3", "_", "1", "#", "2", "_", "6", "_", "2">>,
               <<"1", "_", "3", "_", "1", "#", "1", "_", "4", "_", "2">>,
               <<>>,
               <<"1", "_", "x", "#", "2", "_", "6", "_", "2">> }
      [] c = ColorMapStr ->
             \* "a_Red#b_Blue", "a_1", ""
             { <<"a", "_", "R", "e", "d", "#", "b", "_", "B", "l", "u", "e">>,
               <<"a", "_", "1">>,
               <<>> }

MapTables ==
    UNION { { TableOf(CfgIdStr, c, cs) : cs \in SeqsUpTo(MapCellsOf(c), MaxRows) }
            : c \in MapColumns }

\* m := make(map[int]*MapCfg); err = ReadCsvFromDataMap(rows, m, option)
ReadMapFieldsCall ==
    /\ op = "none"
    /\ \E ptr \in OptionPtrs, rows \in MapTables :
           Finish("ReadCsvFromDataMap",
                  [rows |-> rows, option |-> ptr, valueType |-> "*MapCfg"],
                  ReadCsvFromDataMap(rows, <<>>, "int", "*MapCfg",
                                     OrDefault(option, ptr), heap))

NextMapFields ==
    \/ RegisterConverterByType
    \/ ReadMapFieldsCall

SpecMapFields == Init /\ [][NextMapFields]_vars

-----------------------------------------------------------------------------
(* Reads under every configuration of the row indices, of rows that may    *)
(* lack a header, into destinations that may already hold something.       *)

MaxRowIndex == 2

\* rows: none, a header of no column, a header, a header and data rows
PlainRows ==
    LET header == <<CfgIdStr, NameStr>>
        row(i) == <<Itoa(i), <<"a">>>>
    IN  { <<>>, <<<<>>>>, <<<<>>, row(1)>>, <<header>>, <<header, row(1)>>,
          <<header, row(1), row(2)>> }

KeyValueRows ==
    { <<>>, <<<<>>>>, <<<<>>, <<VolumeStr, <<"8", "0">>, commentStr>>>>,
      <<<<KeyStr, ValueStr, commentStr>>>>, SettingsRows }

\* What a destination may hold before the call.
MapsBefore == { <<>>, MapPut(<<>>, 9, PtrTo(Zero("Cfg"))) }

SlicesBefore == { <<>>, <<Zero("Cfg")>> }

ObjectsBefore == { Zero("Settings"), [Zero("Settings") EXCEPT ![VolumeStr] = 5] }

ReadCsvFromDataMapOnto ==
    /\ op = "none"
    /\ \E ptr \in OptionPtrs, rows \in PlainRows, m \in MapsBefore :
           Finish("ReadCsvFromDataMap",
                  [rows |-> rows, option |-> ptr, valueType |-> "*Cfg", before |-> m],
                  ReadCsvFromDataMap(rows, m, "int", "*Cfg",
                                     OrDefault(option, ptr), heap))

ReadCsvFromDataSliceOnto ==
    /\ op = "none"
    /\ \E ptr \in OptionPtrs, rows \in PlainRows, sl \in SlicesBefore :
           Finish("ReadCsvFromDataSlice",
                  [rows |-> rows, option |-> ptr, valueType |-> "Cfg", before |-> sl],
                  ReadCsvFromDataSlice(rows, sl, "Cfg",
                                       OrDefault(option, ptr), heap))

\* v a *Settings, or a Settings passed by value
ReadCsvFromDataObjectOnto ==
    /\ op = "none"
    /\ \E ptr \in OptionPtrs, rows \in KeyValueRows, obj \in ObjectsBefore,
          vType \in {"*Settings", "Settings"} :
           Finish("ReadCsvFromDataObject",
                  [rows |-> rows, option |-> ptr, valueType |-> vType, before |-> obj],
                  ReadCsvFromDataObject(rows, obj, vType,
                                        OrDefault(option, ptr), heap))

\* The caller's option with its row indices set to any small values.
InitIndices ==
    \E c \in 0..MaxRowIndex, d \in 0..MaxRowIndex, od \in 0..MaxRowIndex :
        InitWith([DefaultOption EXCEPT !.ColumnNameRowIndex = c,
                                       !.DataBeginRowIndex = d,
                                       !.ObjectDataBeginRowIndex = od])

NextIndices ==
    \/ ReadCsvFromDataMapOnto
    \/ ReadCsvFromDataSliceOnto
    \/ ReadCsvFromDataObjectOnto

SpecIndices == InitIndices /\ [][NextIndices]_vars

-----------------------------------------------------------------------------
(* Columns named to IgnoreColumn before a table is read.                   *)

IgnoredNames == { NameStr, ColorFlagsStr }

\* if co.ignoreColumns == nil { co.ignoreColumns = make(map[string]struct{}) }
\* co.ignoreColumns[columnName] = struct{}{}, for one column name
IgnoreColumn ==
    /\ op = "none"
    /\ \E v \in RegisterThrough, columnName \in IgnoredNames :
           Register(Registered(option, heap, v, "ignoreColumns", columnName, "struct{}{}"))

NextIgnore ==
    \/ IgnoreColumn
    \/ RegisterConverterByColumnName
    \/ ReadCsvFromDataSliceCall

SpecIgnore == Init /\ [][NextIgnore]_vars

-----------------------------------------------------------------------------
(* Records with pointer fields, after Item and ColorPtr of testCfg, and     *)
(* converters registered under pointer types.                               *)

\* RegisterConverterByType's arguments: a pointer type or its pointee type
PointerTypeRegistrations ==
    { [key |-> "*Color", converter |-> "ColorPtrConv"],
      [key |-> "Color", converter |-> "ColorConv"],
      [key |-> "*ItemNum", converter |-> "ItemNumConv"] }

RegisterConverterByPointerType ==
    /\ op = "none"
    /\ \E v \in RegisterThrough, r \in PointerTypeRegistrations :
           Register(Registered(option, heap, v, "customFieldConvertersByType",
                               r.key, r.converter))

\* The cells a pointer column is filled from.
PointerCellsOf(c) ==
    CASE c = ColorPtrStr ->
             \* "Red", "2", ""
             { <<"R", "e", "d">>, <<"2">>, <<>> }
      [] c = ItemStr ->
             \* "1_2", "x"
             { <<"1", "_", "2">>, <<"x">> }

PointerTables ==
    UNION { { TableOf(CfgIdStr, c, cs) : cs \in SeqsUpTo(PointerCellsOf(c), MaxRows) }
            : c \in {ColorPtrStr, ItemStr} }

\* m := make(map[int]*PtrCfg); err = ReadCsvFromDataMap(rows, m, option)
ReadPointerFieldsCall ==
    /\ op = "none"
    /\ \E ptr \in OptionPtrs, rows \in PointerTables :
           Finish("ReadCsvFromDataMap",
                  [rows |-> rows, option |-> ptr, valueType |-> "*PtrCfg"],
                  ReadCsvFromDataMap(rows, <<>>, "int", "*PtrCfg",
                                     OrDefault(option, ptr), heap))

NextPointerFields ==
    \/ RegisterConverterByPointerType
    \/ ReadPointerFieldsCall

SpecPointerFields == Init /\ [][NextPointerFields]_vars

-----------------------------------------------------------------------------
(* Claims about the pair-string parsers *)

\* The pairs a written group stands for, in the order written.
PairsOf(g) == [i \in 1..Len(g) |-> StringPair(g[i].key, g[i].val)]

IsNestItem(it) == it.nest

NestedKeys(g) ==
    LET n == SelectSeq(g, IsNestItem) IN [i \in 1..Len(n) |-> n[i].key]

NamesCover(names, g) ==
    \A i \in 1..Len(g) : g[i].nest => SeqContains(names, g[i].key)

Interleaved(g) ==
    /\ \E i \in 1..Len(g) : g[i].nest
    /\ \E i \in 1..Len(g) : ~g[i].nest

\* C2: ParseNestString on a cell that interleaves top-level pairs and braced
\* nested groups (the nested names given as written) returns exactly one pair
\* per written key, in the order the keys are written in the cell.
C2_NestStringWrittenOrder ==
    ( /\ op = "ParseNestString"
      /\ Interleaved(args.written[1])
      /\ args.nestFieldNames = NestedKeys(args.written[1]) )
    => /\ ~result.panic
       /\ result.pairs = PairsOf(args.written[1])

\* C3: whatever the order of the nested field names, ParseNestString returns
\* for each name written as name_{content} exactly one pair holding content
\* verbatim, and no braced content is split into further pairs.
C3_NestStringAnyNameOrder ==
    ( /\ op = "ParseNestString"
      /\ NamesCover(args.nestFieldNames, args.written[1]) )
    => LET g == args.written[1] IN
       /\ ~result.panic
       /\ Len(result.pairs) = Len(g)
       /\ \A i \in 1..Len(g) :
              g[i].nest =>
                  /\ Cardinality({k \in 1..Len(result.pairs) :
                                      result.pairs[k].Key = g[i].key}) = 1
                  /\ \E k \in 1..Len(result.pairs) :
                         result.pairs[k] = StringPair(g[i].key, g[i].val)

\* C4: ParseNestStringSlice returns one group per written group, in order,
\* each nested pair carrying its braced content verbatim, whatever nested
\* names are used and in whatever order they are given.
C4_NestStringSliceGroups ==
    ( /\ op = "ParseNestStringSlice"
      /\ args.option # "nil"
      /\ \A i \in 1..Len(args.written) :
             NamesCover(args.nestFieldNames, args.written[i]) )
    => /\ ~result.panic
       /\ result.groups = [i \in 1..Len(args.written) |-> PairsOf(args.written[i])]

SeparatorFree(pairs, kvSep, pairSep) ==
    \A i \in 1..Len(pairs) :
        /\ ~Contains(pairs[i].Key, kvSep)   /\ ~Contains(pairs[i].Key, pairSep)
        /\ ~Contains(pairs[i].Value, kvSep) /\ ~Contains(pairs[i].Value, pairSep)

UsedOption == OrDefault(option, args.option)

\* C5 as stated: for every kvSep # pairSep and pairs free of both separators,
\* parsing the joined cell returns the pairs.
C5_RoundTripAnySeparators ==
    ( /\ op = "ParsePairString"
      /\ UsedOption.KvSeparator # UsedOption.PairSeparator
      /\ SeparatorFree(args.written, UsedOption.KvSeparator, UsedOption.PairSeparator) )
    => result.pairs = args.written

\* C5 as amended: the round trip holds when both separators are single
\* characters, kvSep # pairSep, and no key or value contains either.
C5_RoundTripSingleCharSeparators ==
    ( /\ op = "ParsePairString"
      /\ Len(UsedOption.KvSeparator) = 1
      /\ Len(UsedOption.PairSeparator) = 1
      /\ UsedOption.KvSeparator # UsedOption.PairSeparator
      /\ SeparatorFree(args.written, UsedOption.KvSeparator, UsedOption.PairSeparator) )
    => result.pairs = args.written

C5_Witness ==
    /\ op = "ParsePairString"
    /\ args.option = "option"
    /\ UsedOption.KvSeparator = <<";">>
    /\ UsedOption.PairSeparator = <<"#">>
    /\ args.written = << StringPair(<<"a">>, <<"_">>), StringPair(<<>>, <<"a">>) >>
    /\ result.pairs = args.written

-----------------------------------------------------------------------------
(* Claims about the populator *)

TableReads == {"ReadCsvFromDataMap", "ReadCsvFromDataSlice"}

ScalarKinds == {"Int", "Int32", "String", "Bool"}

\* The value a cell stands for in a slot of a scalar kind.
Coerced(t, cell) ==
    CASE Kind(t) \in {"Int", "Int32"} -> Atoi(cell)
      [] Kind(t) = "String" -> cell
      [] Kind(t) = "Bool" -> ParseBool(cell)

\* Of a table read: the header, the number of data rows, the second column,
\* its cell in data row i, and what the destination holds for data row i.
HeaderOf == args.rows[1]

DataRowCount == Len(args.rows) - 1

ColumnOf == HeaderOf[2]

CellOf(i) == args.rows[i + 1][2]

RowValue(i) ==
    IF op = "ReadCsvFromDataMap" THEN dest[Atoi(args.rows[i + 1][1])] ELSE dest[i]

RecordOf(i) ==
    IF Kind(args.valueType) = "Ptr" THEN RowValue(i).elem ELSE RowValue(i)

\* What the slot of the field name of a record holds.
SlotValue(rec, name) ==
    IF Kind(FieldType("Cfg", name)) = "Ptr" THEN rec[name].elem ELSE rec[name]

\* C1: ReadCsvFromDataObject with a nil option on a header row followed by
\* (fieldName, value, comment) rows returns no error, and every field of a
\* scalar kind named in column 0 holds the coerced value of column 1 of the
\* last row naming it, whatever column 2 holds.
C1_ObjectModeNilOption ==
    (op = "ReadCsvFromDataObject" /\ args.option = "nil") =>
        /\ err = "nil"
        /\ \A j \in 2..Len(args.rows) :
               LET name == args.rows[j][1]
                   t == FieldType(Elem(args.valueType), name)
               IN  ( /\ Kind(t) \in ScalarKinds
                     /\ \A j2 \in (j + 1)..Len(args.rows) : args.rows[j2][1] # name )
                   => dest[name] = Coerced(t, args.rows[j][2])

\* The converter invocations that returned nil.
AbsentCalls ==
    { k \in 1..Len(log) :
        /\ log[k].ev = "call"
        /\ ApplyConverter(log[k].conv, log[k].col, log[k].str) = AnyNil }

\* C6: when a registered converter, by column name or by type, returned nil
\* for a cell, the read returns normally with one record per data row, and a
\* field whose own converter returned nil holds no value.
C6_AbsentConverterResult ==
    (op \in TableReads /\ AbsentCalls # {}) =>
        /\ err = "nil"
        /\ \A i \in 1..DataRowCount :
               ( /\ Kind(FieldType("Cfg", ColumnOf)) # "Slice"
                 /\ \E k \in AbsentCalls :
                        log[k].col = ColumnOf /\ log[k].str = CellOf(i) )
               => SlotValue(RecordOf(i), ColumnOf)
                      = Zero(SlotType(FieldType("Cfg", ColumnOf)))

\* The decoder of a top-level slot of type t under column columnName, read
\* off the registries: step 1 the converter of the column name, step 2 the
\* converter of t, step 3 for a struct t the converter of *t, step 4 the kind.
ExpectedDecoder(o, h, columnName, t) ==
    LET byName == MapGet(h, o.customFieldConvertersByColumnName, columnName)
        exact  == MapGet(h, o.customFieldConvertersByType, t)
        viaPtr == IF Kind(t) = "Struct"
                  THEN MapGet(h, o.customFieldConvertersByType, PointerTo(t))
                  ELSE "nil"
    IN  IF byName # "nil" THEN [step |-> 1, converter |-> byName]
        ELSE IF exact # "nil" THEN [step |-> 2, converter |-> exact]
        ELSE IF viaPtr # "nil" THEN [step |-> 3, converter |-> viaPtr]
        ELSE [step |-> 4, converter |-> "nil"]

CallsAt(columnName) ==
    LET AtColumn(e) == e.ev = "call" /\ e.col = columnName
    IN  SelectSeq(log, AtColumn)

NamedBy(pairs, f) == \E k \in 1..Len(pairs) : pairs[k].Key = f

LastValue(pairs, f) ==
    LET ks == { k \in 1..Len(pairs) : pairs[k].Key = f }
    IN  pairs[CHOOSE k \in ks : \A k2 \in ks : k2 <= k].Value

NonEmpty(str) == str # <<>>

\* What the sub-fields of a Child hold after its cell is decoded, but for
\* the elements of Items.
ChildDecoded(child, pairs, o) ==
    \A f \in FieldNames("Child") :
        LET ft == FieldType("Child", f) IN
        CASE Kind(ft) = "Struct" -> child[f] = Zero(ft)
          [] Kind(ft) = "Ptr" ->
                 child[f] = IF NamedBy(pairs, f) THEN PtrTo(Zero(Elem(ft))) ELSE NilPtr
          [] Kind(ft) \in ScalarKinds ->
                 child[f] = IF NamedBy(pairs, f) THEN Coerced(ft, LastValue(pairs, f))
                            ELSE Zero(ft)
          [] ft = "[]int" ->
                 child[f] =
                     IF NamedBy(pairs, f) /\ LastValue(pairs, f) # <<>>
                     THEN LET toks == SelectSeq(Split(LastValue(pairs, f),
                                                      o.SliceSeparator), NonEmpty)
                          IN  MadeSlice([j \in 1..Len(toks) |-> Atoi(toks[j])])
                     ELSE NilSlice
          [] OTHER -> TRUE

NoItemPopulated(child) ==
    \A j \in 1..Len(child[ItemsStr].elems) :
        child[ItemsStr].elems[j] = PtrTo(Zero("ItemNum"))

KnownPositions ==
    LET Known(j) == HeaderOf[j] \in FieldNames("Cfg")
    IN  SelectSeq([j \in 1..Len(HeaderOf) |-> j], Known)

UnknownColumns == { HeaderOf[j] : j \in 1..Len(HeaderOf) } \ FieldNames("Cfg")

IsUnknownColumnEv(e) == e.ev = "unknown column"

Project(row) == [j \in 1..Len(KnownPositions) |-> row[KnownPositions[j]]]

\* Data row i read under the columns of the fields alone.
WithoutUnknown(i) ==
    ConvertCsvLineToValue(args.valueType, Project(args.rows[i + 1]),
                          Project(HeaderOf), UsedOption, heap)

\* Beside C9: a column named after no field of the record changes nothing
\* but the log. Nothing but the "unknown column" record is logged for it,
\* every row's record is the one the columns of the fields alone give, and
\* the read panics only where it panics without the unknown column too.
UnknownColumnChangesNothing ==
    (op \in TableReads /\ Len(KnownPositions) < Len(HeaderOf)) =>
        /\ err \in {"nil", "panic"}
        /\ \A k \in 1..Len(log) :
               log[k].col \in UnknownColumns => log[k].ev = "unknown column"
        /\ err = "nil" =>
               /\ Len(SelectSeq(log, IsUnknownColumnEv)) = DataRowCount
               /\ \A i \in 1..DataRowCount :
                      ~WithoutUnknown(i).panic /\ RowValue(i) = WithoutUnknown(i).val
        /\ err = "panic" => \E i \in 1..DataRowCount : WithoutUnknown(i).panic

\* C9: for every data row a column named after no field of the record is
\* skipped without aborting, every other column of the row is populated
\* into the record, and the read returns no error.
C9_UnknownColumnSkipped ==
    (op \in TableReads /\ Len(KnownPositions) < Len(HeaderOf)) =>
        /\ err = "nil"
        /\ Len(SelectSeq(log, IsUnknownColumnEv)) = DataRowCount
        /\ \A i \in 1..DataRowCount :
               ~WithoutUnknown(i).panic /\ RowValue(i) = WithoutUnknown(i).val

\* Two rows under an unknown column followed by ItemStruct, both populated.
UnknownColumnRead ==
    /\ op = "ReadCsvFromDataMap"
    /\ HeaderOf = <<unknownColumnTestStr, ItemStructStr>>
    /\ DataRowCount = 2
    /\ err = "nil"
    /\ RecordOf(1)[ItemStructStr] = ItemNum(1, 2)
    /\ RecordOf(2)[ItemStructStr] = ItemNum(1, 2)

\* C10: a slice field is left unset by an empty cell; otherwise the read
\* returns normally and the field holds, in token order, the values of the
\* non-empty tokens of the cell split on the slice separator, a token without
\* a value being skipped ("1;2;3" gives [1, 2, 3] for []int).
C10_ArrayField ==
    (op \in TableReads /\ Kind(FieldType("Cfg", ColumnOf)) = "Slice") =>
        /\ err = "nil"
        /\ \A i \in 1..DataRowCount :
               LET toks == SelectSeq(Split(CellOf(i), UsedOption.SliceSeparator), NonEmpty)
                   f == RecordOf(i)[ColumnOf]
               IN  /\ CellOf(i) = <<>> => f = NilSlice
                   /\ CellOf(i) # <<>> => f.slice = "made" /\ Len(f.elems) <= Len(toks)
                   /\ (CellOf(i) # <<>> /\ FieldType("Cfg", ColumnOf) = "[]int")
                          => f.elems = [j \in 1..Len(toks) |-> Atoi(toks[j])]

\* The value a map of type t is expected to hold for the value text str:
\* the registered converter's result, else the text coerced to the value
\* type; AnyNil where there is none.
MapValueOf(t, columnName, str) ==
    LET c == GetConverterByTypePtrOrStruct(UsedOption, heap, Elem(t))
    IN  IF c.converter # "nil" THEN ApplyConverter(c.converter, columnName, str)
        ELSE IF Kind(Elem(t)) \in ScalarKinds
        THEN AnyOf(Elem(t), Coerced(Elem(t), str))
        ELSE AnyNil

\* The pairs of a cell that have a value, in order.
ValuedPairs(t, columnName, cell) ==
    LET Valued(p) == MapValueOf(t, columnName, p.Value) # AnyNil
    IN  SelectSeq(ParsePairString(cell, UsedOption), Valued)

\* The mapping built from pairs in order: each key maps to the value of its
\* last occurrence.
MappingOf(t, columnName, pairs) ==
    LET KeyOf(p) == Coerced(Key(t), p.Key)
        Last(k) == CHOOSE i \in 1..Len(pairs) :
                       /\ KeyOf(pairs[i]) = k
                       /\ \A j \in (i + 1)..Len(pairs) : KeyOf(pairs[j]) # k
    IN  [k \in { KeyOf(pairs[i]) : i \in 1..Len(pairs) } |->
            MapValueOf(t, columnName, pairs[Last(k)].Value).val]

MapFieldRead == op = "ReadCsvFromDataMap" /\ Kind(FieldType("MapCfg", ColumnOf)) = "Map"

\* C11: a map field is left unset by an empty cell; otherwise the read
\* returns normally and the field holds the mapping built from the pairs of
\* the cell in order, a key holding the value of its last occurrence
\* ("a_1#b_2#c_3" gives {a:1, b:2, c:3}).
C11_MapField ==
    MapFieldRead =>
        /\ err = "nil"
        /\ \A i \in 1..DataRowCount :
               LET t == FieldType("MapCfg", ColumnOf)
                   f == RecordOf(i)[ColumnOf]
               IN  /\ CellOf(i) = <<>> => f = NilMapValue
                   /\ CellOf(i) # <<>> =>
                          f = MadeMap(MappingOf(t, ColumnOf,
                                                ValuedPairs(t, ColumnOf, CellOf(i))))

\* Beside C11: the same for the map fields whose value type is the type of
\* the values the decoder produces: every map of the tests, and a map to
\* Color once a converter is registered for Color.
MapFieldOfProducedType ==
    ( /\ MapFieldRead
      /\ \/ ColumnOf # ColorMapStr
         \/ GetConverterByType(UsedOption, heap, "Color") # "nil" ) =>
        /\ err = "nil"
        /\ \A i \in 1..DataRowCount :
               LET t == FieldType("MapCfg", ColumnOf)
                   f == RecordOf(i)[ColumnOf]
               IN  /\ CellOf(i) = <<>> => f = NilMapValue
                   /\ CellOf(i) # <<>> =>
                          f = MadeMap(MappingOf(t, ColumnOf,
                                                ValuedPairs(t, ColumnOf, CellOf(i))))

\* TestReadCsvFromDataStruct's cell "a_1#b_2#c_3" read into MapTest.
MapTestRead ==
    /\ MapFieldRead
    /\ ColumnOf = MapTestStr
    /\ DataRowCount >= 1
    /\ RecordOf(1)[MapTestStr] =
           MadeMap((<<"a">> :> 1) @@ (<<"b">> :> 2) @@ (<<"c">> :> 3))

\* The structural faults of a call, read off its arguments: no rows, no
\* column-name row, a header of no column, a begin-row index below 1, and
\* for a key-value read a destination that is no pointer.
StructuralFault ==
    LET rows == args.rows
        o == UsedOption
    IN  \/ rows = <<>>
        \/ /\ op \in TableReads
           /\ \/ Len(rows) <= o.ColumnNameRowIndex
              \/ rows[o.ColumnNameRowIndex + 1] = <<>>
              \/ o.DataBeginRowIndex < 1
        \/ /\ op = "ReadCsvFromDataObject"
           /\ \/ rows[1] = <<>>
              \/ o.ObjectDataBeginRowIndex < 1
              \/ Kind(args.valueType) # "Ptr"

Ignored ==
    IF UsedOption.ignoreColumns = NilMap THEN {}
    ELSE DOMAIN heap[UsedOption.ignoreColumns]

\* The positions of the header whose name is not ignored.
KeptPositions ==
    LET Kept(j) == HeaderOf[j] \notin Ignored
    IN  SelectSeq([j \in 1..Len(HeaderOf) |-> j], Kept)

KeepOnly(row) == [j \in 1..Len(KeptPositions) |-> row[KeptPositions[j]]]

\* Data row i read as if the ignored columns were not in the file.
WithoutIgnored(i) ==
    ConvertCsvLineToValue(args.valueType, KeepOnly(args.rows[i + 1]),
                          KeepOnly(HeaderOf), UsedOption, heap)

\* C13: a column named to IgnoreColumn is ignored when a row is assembled:
\* no converter is invoked for it and every record is the one read as if
\* the column were not in the file.
C13_IgnoredColumn ==
    (op \in TableReads /\ ColumnOf \in Ignored) =>
        /\ CallsAt(ColumnOf) = <<>>
        /\ err = "nil"
        /\ \A i \in 1..DataRowCount : RowValue(i) = WithoutIgnored(i).val

\* The decode of the cell of data row i failed at the top-level field: the
\* converter registered for its type returned nil.
AbsentForField(i) ==
    LET d == ExpectedDecoder(UsedOption, heap, ColumnOf,
                             SlotType(FieldType("Cfg", ColumnOf)))
    IN  /\ d.step \in {2, 3}
        /\ ApplyConverter(d.converter, ColumnOf, CellOf(i)) = AnyNil

\* The sub-fields of Child a pair of the cell names and the one-level limit
\* rejects: those whose slot is a struct.
RejectedSubFields(cell) ==
    { f \in FieldNames("Child") :
        /\ Kind(SlotType(FieldType("Child", f))) = "Struct"
        /\ NamedBy(ParsePairString(cell, UsedOption), f) }

\* C14: after a field-level decode failure (a converter returning nil, a
\* struct inside a nested struct) the field holds its zero value once the
\* row is read; a pointer field whose decode failed is nil.
C14_FailedFieldIsZero ==
    (op \in TableReads /\ err = "nil" /\ FieldType("Cfg", ColumnOf) # "invalid") =>
        \A i \in 1..DataRowCount :
            /\ AbsentForField(i) =>
                   RecordOf(i)[ColumnOf] = Zero(FieldType("Cfg", ColumnOf))
            /\ ColumnOf = ChildStr =>
                   \A f \in RejectedSubFields(CellOf(i)) :
                       RecordOf(i)[ChildStr][f] = Zero(FieldType("Child", f))

\* Beside C14: the same with a pointer field left pointing at the zero
\* value of its pointee, allocated before the decode.
FailedSlotIsZero ==
    (op \in TableReads /\ err = "nil" /\ FieldType("Cfg", ColumnOf) # "invalid") =>
        \A i \in 1..DataRowCount :
            /\ AbsentForField(i) =>
                   RecordOf(i)[ColumnOf] =
                       SlotHolder(FieldType("Cfg", ColumnOf),
                                  Zero(SlotType(FieldType("Cfg", ColumnOf))))
            /\ ColumnOf = ChildStr =>
                   \A f \in RejectedSubFields(CellOf(i)) :
                       RecordOf(i)[ChildStr][f] =
                           SlotHolder(FieldType("Child", f),
                                      Zero(SlotType(FieldType("Child", f))))

\* C15: for a field declared with a pointer type, the converter registered
\* under exactly that pointer type, when there is one and no converter of
\* the column name, is invoked for every cell and its result is what the
\* field holds; without any converter the pointee is allocated and decoded
\* by its kind.
C15_ExactPointerType ==
    ( /\ op = "ReadCsvFromDataMap"
      /\ Kind(FieldType("PtrCfg", ColumnOf)) = "Ptr"
      /\ GetConverterByColumnName(UsedOption, heap, ColumnOf) = "nil" ) =>
        LET ft == FieldType("PtrCfg", ColumnOf)
            exact == GetConverterByType(UsedOption, heap, ft)
            calls == CallsAt(ColumnOf)
        IN  /\ err = "nil"
            /\ exact # "nil" =>
                   /\ Len(calls) = DataRowCount
                   /\ \A i \in 1..DataRowCount :
                          LET v == ApplyConverter(exact, ColumnOf, CellOf(i))
                          IN  /\ calls[i].conv = exact
                              /\ calls[i].str = CellOf(i)
                              /\ v # AnyNil => RecordOf(i)[ColumnOf] = v.val
            /\ ( /\ exact = "nil"
                 /\ GetConverterByType(UsedOption, heap, Elem(ft)) = "nil" ) =>
                   \A i \in 1..DataRowCount :
                       RecordOf(i)[ColumnOf] =
                           PtrTo(KindDecode(Elem(ft), Zero(Elem(ft)), ColumnOf,
                                            CellOf(i), UsedOption, heap, FALSE).val)

\* Beside C15: the registry is asked for the pointee type of a pointer
\* field, and for a struct pointee then for the pointer type.
PointeeTypeLookup ==
    ( /\ op = "ReadCsvFromDataMap"
      /\ Kind(FieldType("PtrCfg", ColumnOf)) = "Ptr" ) =>
        LET ft == FieldType("PtrCfg", ColumnOf)
            d == ExpectedDecoder(UsedOption, heap, ColumnOf, Elem(ft))
        IN  /\ err = "nil"
            /\ \A k \in 1..Len(CallsAt(ColumnOf)) :
                   CallsAt(ColumnOf)[k].conv = d.converter
            /\ d.step = 4 => CallsAt(ColumnOf) = <<>>

\* The number of "}" in a string.
Braces(str) == Cardinality({ k \in 1..Len(str) : str[k] = "}" })

Replacing == op = "ParseNestStringSlice.replace"

\* What an iteration of the placeholder loop does to the loop state: no
\* slice out of range, no "}" added, and a "}" removed unless the loop is
\* left for the next name.
IterationShrinks ==
    (Replacing /\ Replacing') =>
        /\ ~result'.panic
        /\ \/ /\ Braces(result'.s) < Braces(result.s)
              /\ result'.names = result.names
           \/ /\ result'.s = result.s
              /\ Len(result'.names) < Len(result.names)

\* C16: with nested field names and a key-value separator free of braces
\* the placeholder loop of ParseNestStringSlice terminates: every iteration
\* removes a "}" from the working string and adds none, also when the
\* placeholder and the text after it form the keyword anew, and no slice is
\* out of range.
C16_ReplaceLoopTerminates ==
    /\ [][IterationShrinks]_vars
    /\ Replacing ~> (Replacing /\ result.names = <<>>)

\* Beside C16: the loop run step by step ends in the state the recursive
\* ReplaceAll computes.
ReplaceStepsAgree ==
    (Replacing /\ result.names = <<>>) =>
        LET st == ReplaceAll([panic |-> FALSE, idCounter |-> 0,
                              replaceKeys |-> <<>>, s |-> args.cellString],
                             args.nestFieldNames, option["option"].KvSeparator)
        IN  /\ st.panic = result.panic
            /\ st.s = result.s
            /\ st.idCounter = result.idCounter
            /\ st.replaceKeys = result.replaceKeys

\* The cell "1_{}_{}" with the nested name "1": the placeholder "1_1" and
\* the "_{" after it form the keyword "1_{" anew, and the loop has ended
\* after a second replacement.
C16_Witness ==
    /\ Replacing
    /\ args.cellString = <<"1", "_", "{", "}", "_", "{", "}">>
    /\ args.nestFieldNames = <<<<"1">>>>
    /\ result.idCounter = 2
    /\ result.s = <<"1", "_", "1", "_", "2">>
    /\ result.names = <<>>

-----------------------------------------------------------------------------
(* CsvOption values copied as structs, after option := DefaultOption of     *)
(* TestReadCsvFromDataConverter: the copy holds the map fields of the       *)
(* original by reference.  Registrations go through either value, in any    *)
(* order with the copies.                                                   *)

\* The maps a program allocates for its registries.
MaxMaps == 3

\* to := from, or to = from: every field assigned, a map field as the
\* reference it is
CopyOption ==
    /\ \E from \in OptionVars :
           \E to \in OptionVars \ {from} :
               /\ option' = [option EXCEPT ![to] = option[from]]
               /\ op' = "copy"
               /\ args' = [from |-> from, to |-> to]
    /\ UNCHANGED <<heap, result, dest, err, log>>

\* The state after the method has registered key through the CsvOption
\* variable v; a registry that is nil is allocated while the program has
\* room for a map.
RegisterOn(v, method, registry, key, converter, after) ==
    /\ option[v][registry] = NilMap => Len(heap) < MaxMaps
    /\ option' = after.option
    /\ heap' = after.heap
    /\ op' = method
    /\ args' = [co |-> v, key |-> key, converter |-> converter]

RegisterConverterByColumnNameOn ==
    /\ \E v \in OptionVars, r \in NameRegistrations :
           RegisterOn(v, "RegisterConverterByColumnName",
                      "customFieldConvertersByColumnName", r.key, r.converter,
                      Registered(option, heap, v, "customFieldConvertersByColumnName",
                                 r.key, r.converter))
    /\ UNCHANGED <<result, dest, err, log>>

RegisterConverterByTypeOn ==
    /\ \E v \in OptionVars, r \in TypeRegistrations :
           RegisterOn(v, "RegisterConverterByType",
                      "customFieldConvertersByType", r.key, r.converter,
                      Registered(option, heap, v, "customFieldConvertersByType",
                                 r.key, r.converter))
    /\ UNCHANGED <<result, dest, err, log>>

IgnoreColumnOn ==
    /\ \E v \in OptionVars, columnName \in IgnoredNames :
           RegisterOn(v, "IgnoreColumn", "ignoreColumns", columnName, "struct{}{}",
                      Registered(option, heap, v, "ignoreColumns", columnName,
                                 "struct{}{}"))
    /\ UNCHANGED <<result, dest, err, log>>

NextOwner ==
    \/ CopyOption
    \/ RegisterConverterByColumnNameOn
    \/ RegisterConverterByTypeOn
    \/ IgnoreColumnOn

SpecOwner == Init /\ [][NextOwner]_vars

RegisterMethods ==
    {"RegisterConverterByColumnName", "RegisterConverterByType", "IgnoreColumn"}

\* What GetConverterByColumnName and GetConverterByType return on the
\* CsvOption o, for every key a program registers.
Lookups(o, h) ==
    [ byColumnName |-> [ r \in NameRegistrations |->
                           GetConverterByColumnName(o, h, r.key) ],
      byType       |-> [ r \in TypeRegistrations |->
                           GetConverterByType(o, h, r.key) ] ]

\* A step that registers through one CsvOption variable leaves the lookups
\* on the other as they were.
RegistrationKeepsOthers ==
    \A w \in OptionVars :
        (op' \in RegisterMethods /\ args'.co # w) =>
            Lookups(option'[w], heap') = Lookups(option[w], heap)

\* C17: the registries are owned by one CsvOption value: whatever the order
\* of RegisterConverterByColumnName, RegisterConverterByType, IgnoreColumn
\* and struct copies of a CsvOption, a registration through one CsvOption
\* value never changes what GetConverterByColumnName or GetConverterByType
\* returns on a different CsvOption value.
C17_RegistriesOwnedByOneValue == [][RegistrationKeepsOthers]_vars

\* The registries of the two CsvOption variables are nil or different maps.
SeparateRegistries ==
    \A registry \in {"customFieldConvertersByColumnName",
                     "customFieldConvertersByType", "ignoreColumns"} :
        \/ option["option"][registry] = NilMap
        \/ option["option"][registry] # option["DefaultOption"][registry]

\* Beside C17: a registration through one variable keeps the lookups on the
\* other while the two share no map.
SeparateRegistriesKeepOthers ==
    [][SeparateRegistries => RegistrationKeepsOthers]_vars

\* RegisterConverterByColumnName has written a map that both CsvOption
\* variables hold.
SharedRegistryWritten ==
    /\ op = "RegisterConverterByColumnName"
    /\ option["option"].customFieldConvertersByColumnName # NilMap
    /\ option["option"].customFieldConvertersByColumnName =
           option["DefaultOption"].customFieldConvertersByColumnName

====
